---- MODULE Spec2Model ----
(***************************************************************************)
(* formix: a form-state engine (createForm) over a bounded undo/redo       *)
(* history manager (createUndoRedoManager), a dotted-path get/set and an   *)
(* update resolver.                                                        *)
(*                                                                         *)
(* The specifications:                                                     *)
(*   SpecHM       the history manager alone, driven by record/undo/redo;   *)
(*   Spec         the form engine driven by a caller awaiting every call;  *)
(*   SpecMeta     awaited setFieldMeta calls mixed with setState calls;    *)
(*   SpecOverlap  setFieldValue calls whose promises are not awaited;      *)
(*   SpecMetaOverlap  setFieldMeta calls whose promises are not awaited;   *)
(*   SpecRace     setState calls started at any moment, initialization     *)
(*                included;                                                *)
(*   SpecArray    the array field view's operations (useArrayField);       *)
(*   SpecPath     the dotted-path get and set on their own.                *)
(***************************************************************************)
EXTENDS Integers, Sequences, FiniteSets, TLC

\* ---------------------------------------------------------------- bounds
MaxLimit == 3
MaxVal   == 1
MaxSteps == 2
MaxCalls == 3
MaxFaults == 1
MaxOverlap == 2
MaxArray == 3
MaxArrayOps == 1

Min(a, b) == IF a < b THEN a ELSE b
Max(a, b) == IF a > b THEN a ELSE b

\* Array.prototype.slice(begin, end) on a sequence, 0-based, negative
\* offsets counted from the end.
slice(s, begin, end) ==
    LET n    == Len(s)
        from == IF begin < 0 THEN Max(n + begin, 0) ELSE Min(begin, n)
        to   == IF end < 0 THEN Max(n + end, 0) ELSE Min(end, n)
    IN  SubSeq(s, from + 1, to)

\* slice(begin) with the end left out.
sliceFrom(s, begin) == slice(s, begin, Len(s))

VARIABLES
    props,             \* createForm's props: the initializer and the submit handler
    heap,              \* the objects of the JavaScript heap, by address
    state,             \* the `state` signal: a reference to an object, or null
    initialState,      \* `let initialState`; in SpecHM the snapshot the manager was created with
    undoRedoManager,   \* the manager's closure variable `state`: [history, currentIndex]
    undoLimit,         \* maxHistorySize of the manager (props.undoLimit)
    errors,            \* the `errors` signal
    formStatus,        \* the `formStatus` signal
    fieldStatuses,     \* the `fieldStatuses` signal
    fieldMetas,        \* the `fieldMetas` signal: the meta record of each path that has one
    ready,             \* the microtask queue: continuations ready to run, in order
    pending,           \* continuations waiting for a promise the engine does not settle
    caller,            \* what the calling code is doing: "running", "awaiting", "sleeping"
    mode,              \* the caller's discipline: "awaits" every call and lets the form settle
    ncalls,            \* how many engine calls the caller has made
    submitted,         \* how many times props.onSubmit was invoked
    faults,            \* how many promises of the environment have rejected
    script,            \* observer: the writes and single undos made since initialization
    callLog,           \* observer: the caller's last engine call with what it saw after it
    calls,             \* observer: the calls the caller made without awaiting them, in order
    hmLog,             \* observer: the last two manager calls, each with the manager before it
    hmOverflowed       \* observer: a record was made when currentIndex + 1 = maxHistorySize

engineVars == <<props, heap, state, errors, formStatus, fieldStatuses, ready, pending,
                caller, mode, ncalls, submitted, faults, script, callLog, calls, fieldMetas>>
hmVars == <<hmLog, hmOverflowed>>
vars == <<props, heap, state, initialState, undoRedoManager, undoLimit, errors, formStatus,
          fieldStatuses, ready, pending, caller, mode, ncalls, submitted, faults, script,
          callLog, hmLog, hmOverflowed, calls, fieldMetas>>

\* ------------------------------------------------------------- values
\* JavaScript values: null, undefined, a number, a reference to a heap object.
Null      == [t |-> "null", v |-> 0]
Undefined == [t |-> "undefined", v |-> 0]
TypeError == [t |-> "throw", v |-> 0]
Num(n)    == [t |-> "num", v |-> n]
Ref(addr) == [t |-> "ref", v |-> addr]

\* The form state of the engine model: objects {a, b} of numbers.
MaxField  == 1
FieldVals == {Num(n) : n \in 0 .. MaxField}
Objs      == [a : FieldVals, b : FieldVals]
\* A path is the list of its segments (path.split('.')).
Paths     == {<<"a">>, <<"b">>}

Range(s) == {s[i] : i \in DOMAIN s}

\* The lowest address not in use.
FreshAddr(h) ==
    CHOOSE x \in 1 .. (Cardinality(DOMAIN h) + 1) :
        x \notin DOMAIN h /\ \A y \in 1 .. (x - 1) : y \in DOMAIN h

\* A new object literal.
Alloc(h, obj) ==
    [x \in DOMAIN h \cup {FreshAddr(h)} |-> IF x \in DOMAIN h THEN h[x] ELSE obj]

\* Objects nothing refers to any more are dropped.
Collect(h, roots) ==
    LET held  == {r.v : r \in {q \in roots : q.t = "ref"}}
        inner == UNION {{h[x][k].v : k \in {n \in DOMAIN h[x] : h[x][n].t = "ref"}} : x \in held}
    IN  [x \in held \cup inner |-> h[x]]

\* The value a reference stands for (what toEqual compares).
ValueOf(h, val) == IF val.t = "ref" THEN h[val.v] ELSE val

\* result[key]
Member(h, result, key) ==
    IF result.t = "ref"
    THEN IF key \in DOMAIN h[result.v] THEN h[result.v][key] ELSE Undefined
    ELSE IF result.t \in {"null", "undefined", "throw"} THEN TypeError
    ELSE Undefined

\* The segments made of digits only (/^\d+$/), among the segments the model
\* uses, and the number parseInt(key, 10) reads from each.
Digits == {"0", "1", "01"}
parseInt(key) == IF key = "0" THEN 0 ELSE 1

\* String(n): the property name of array index n.
indexName(n) ==
    IF n = 0 THEN "0" ELSE IF n = 1 THEN "1" ELSE IF n = 2 THEN "2" ELSE IF n = 3 THEN "3" ELSE "4"

\* Array.isArray(val): an array is an object with its elements under the
\* names "0", "1", ... and a length.
IsArray(h, val) == val.t = "ref" /\ "length" \in DOMAIN h[val.v]

\* One turn of get's loop: result[parseInt(key, 10)] on an array with a
\* digits-only key, result[key] otherwise.
Step(h, result, key) ==
    IF IsArray(h, result) /\ key \in Digits
    THEN Member(h, result, indexName(parseInt(key)))
    ELSE Member(h, result, key)

RECURSIVE getWalk(_, _, _)
getWalk(h, result, keys) ==
    IF keys = <<>> THEN result
    ELSE getWalk(h, Step(h, result, Head(keys)), Tail(keys))

get(h, obj, path) == getWalk(h, obj, path)

\* keys.reduce((acc, key) => acc[key], obj)
RECURSIVE reduce(_, _, _)
reduce(h, acc, keys) ==
    IF keys = <<>> THEN acc
    ELSE reduce(h, Member(h, acc, Head(keys)), Tail(keys))

\* target[lastKey] = value on the object `target`: on an array, writing the
\* name of an index at or past its length makes the array longer.
Assigned(target, lastKey, value) ==
    LET written == (lastKey :> value) @@ target
    IN  IF "length" \in DOMAIN target /\ lastKey \in Digits
           /\ indexName(parseInt(lastKey)) = lastKey
           /\ parseInt(lastKey) >= target.length.v
        THEN [written EXCEPT !.length = Num(parseInt(lastKey) + 1)]
        ELSE written

\* Faulty variant of set: every key of the target gets the value.
set_clobbers(h, obj, path, value) ==
    IF path = <<>> THEN h
    ELSE LET target == reduce(h, obj, SubSeq(path, 1, Len(path) - 1))
         IN  IF target.t = "ref"
             THEN [h EXCEPT ![target.v] = [k \in DOMAIN @ |-> value]]
             ELSE h

\* set assigns in place and returns obj, the same reference: its result here
\* is the heap after the assignment.
set(h, obj, path, value) ==
    IF path = <<>> THEN h
    ELSE LET target == reduce(h, obj, SubSeq(path, 1, Len(path) - 1))
             lastKey == path[Len(path)]
         IN  IF target.t = "ref"
             THEN [h EXCEPT ![target.v] = Assigned(@, lastKey, value)]
             ELSE h

\* --------------------------------------------------------- validation
NoErrors == [fieldErrors |-> {}, formErrors |-> FALSE]

\* The schema of the model: z.object({a: z.number().min(1), b: z.number()}).
\* The flattened error of safeParseAsync(state()), NoErrors on success.
flatten(obj) ==
    [fieldErrors |-> {p \in Paths : p = <<"a">> /\ obj.a.v < 1}, formErrors |-> FALSE]

safeParse(h, st) ==
    IF st.t # "ref" THEN [fieldErrors |-> {}, formErrors |-> TRUE]
    ELSE flatten(h[st.v])

\* -------------------------------------------------------- continuations
\* A suspended async call chain: op is the function the caller invoked, pc the
\* await it is suspended on, awaited whether the caller awaits its promise, id
\* its place among the calls made without awaiting (0 for the others).
NewFrame(op, pc, awaited, next) ==
    [op |-> op, pc |-> pc, awaited |-> awaited, id |-> 0, next |-> next, path |-> <<>>,
     cur |-> Undefined, errs |-> NoErrors, outcome |-> "ok", meta |-> Undefined]

\* The caller's own continuation, resumed with the outcome of the awaited call.
CallerToken(outcome) ==
    [NewFrame("caller", "resume", FALSE, Undefined) EXCEPT !.outcome = outcome]

\* The promise of call chain f settles: the awaiting caller is queued.
Complete(q, f, outcome) == IF f.awaited THEN Append(q, CallerToken(outcome)) ELSE q

\* An await: on a settled promise the continuation is queued, on an unsettled one it waits.
Suspend(q, f, isAsync) == IF isAsync THEN q ELSE Append(q, f)
Park(w, f, isAsync) == IF isAsync THEN Append(w, f) ELSE w

RemoveAt(s, i) == SubSeq(s, 1, i - 1) \o SubSeq(s, i + 1, Len(s))

FrameRoots(q) == UNION {{q[i].next, q[i].cur} : i \in DOMAIN q}

\* Every reference the program holds.
Roots(st, init, mgr, q, w, pr) ==
    {st, init, pr.literal} \cup Range(mgr.history) \cup FrameRoots(q) \cup FrameRoots(w)

\* ------------------------------------------------------- history manager
\* The value of the signal before a manager was created.
NoManager == [history |-> <<>>, currentIndex |-> -1]

\* Faulty variant of createUndoRedoManager: the history starts empty.
createUndoRedoManager_empty(initial) ==
    [history |-> <<>>, currentIndex |-> -1]

createUndoRedoManager(initial) ==
    [history |-> <<initial>>, currentIndex |-> 0]

\* history[i] of the source (0-based).
entryAt(m, i) == m.history[i + 1]

\* Faulty variants of setState, used to show that the properties below depend on it:
\* the history is not cut to maxHistorySize;
UndoRedo_setState_untrimmed(m, newState, maxHistorySize) ==
    [history      |-> slice(m.history, 0, m.currentIndex + 1) \o <<newState>>,
     currentIndex |-> Min(m.currentIndex + 1, maxHistorySize - 1)]

\* the redo branch is kept;
UndoRedo_setState_keepsFuture(m, newState, maxHistorySize) ==
    [history      |-> sliceFrom(m.history \o <<newState>>, 0 - maxHistorySize),
     currentIndex |-> Min(m.currentIndex + 1, maxHistorySize - 1)]

\* the index is not clamped;
UndoRedo_setState_unclamped(m, newState, maxHistorySize) ==
    [history      |-> sliceFrom(slice(m.history, 0, m.currentIndex + 1) \o <<newState>>,
                                0 - maxHistorySize),
     currentIndex |-> m.currentIndex + 1]

\* the history is cut one entry too short.
UndoRedo_setState_cutsOneMore(m, newState, maxHistorySize) ==
    [history      |-> sliceFrom(slice(m.history, 0, m.currentIndex + 1) \o <<newState>>,
                                1 - maxHistorySize),
     currentIndex |-> Min(m.currentIndex + 1,
                          Len(sliceFrom(slice(m.history, 0, m.currentIndex + 1) \o <<newState>>,
                                        1 - maxHistorySize)) - 1)]

\* Faulty variant of setState: a state equal to the current entry is not
\* recorded again.
UndoRedo_setState_deduplicated(m, newState, maxHistorySize) ==
    IF m.history # <<>> /\ m.history[m.currentIndex + 1] = newState THEN m
    ELSE [history      |-> sliceFrom(slice(m.history, 0, m.currentIndex + 1) \o <<newState>>,
                                     0 - maxHistorySize),
          currentIndex |-> Min(m.currentIndex + 1, maxHistorySize - 1)]

\* Faulty variant of setState: the entry is appended and the index is left
\* where it was.
UndoRedo_setState_staleIndex(m, newState, maxHistorySize) ==
    [history      |-> sliceFrom(slice(m.history, 0, m.currentIndex + 1) \o <<newState>>,
                                0 - maxHistorySize),
     currentIndex |-> m.currentIndex]

\* Faulty variant of setState: the new state is not recorded.
UndoRedo_setState_notRecorded(m, newState, maxHistorySize) == m

UndoRedo_setState(m, newState, maxHistorySize) ==
    [history      |-> sliceFrom(slice(m.history, 0, m.currentIndex + 1) \o <<newState>>,
                                0 - maxHistorySize),
     currentIndex |-> Min(m.currentIndex + 1, maxHistorySize - 1)]

\* Faulty variant of undo: the step count is ignored.
UndoRedo_undo_oneStep(m, steps) ==
    [m EXCEPT !.currentIndex = Max(0, m.currentIndex - 1)]

UndoRedo_undo(m, steps) ==
    [m EXCEPT !.currentIndex = Max(0, m.currentIndex - steps)]

\* Faulty variant of redo: the step count is ignored.
UndoRedo_redo_oneStep(m, steps) ==
    [m EXCEPT !.currentIndex = Min(Len(m.history) - 1, m.currentIndex + 1)]

UndoRedo_redo(m, steps) ==
    [m EXCEPT !.currentIndex = Min(Len(m.history) - 1, m.currentIndex + steps)]

UndoRedo_canUndo(m, steps) == m.currentIndex >= steps

UndoRedo_canRedo(m, steps) == m.currentIndex + steps < Len(m.history)

getCurrentState(m) == entryAt(m, m.currentIndex)

\* ------------------------------------------- SpecHM: the manager alone
NoValue  == -1

\* No form engine around the manager.
EngineIdle ==
    /\ props = [initialState |-> "none", literal |-> Undefined, yields |-> Undefined]
    /\ heap = <<>>
    /\ state = NoValue
    /\ errors = {}
    /\ formStatus = {}
    /\ fieldStatuses = {}
    /\ fieldMetas = {}
    /\ ready = <<>>
    /\ pending = <<>>
    /\ caller = "none"
    /\ mode = "none"
    /\ ncalls = 0
    /\ submitted = 0
    /\ faults = 0
    /\ script = <<>>
    /\ callLog = NoValue
    /\ calls = <<>>

HMStates == 0 .. MaxVal
HMSteps  == 0 .. MaxSteps

HMCall(op, steps, newState, ret, pre) ==
    [op |-> op, steps |-> steps, newState |-> newState, ret |-> ret, pre |-> pre]

Logged(log, call) == IF Len(log) = 2 THEN <<log[2], call>> ELSE log \o <<call>>

InitHM ==
    /\ undoLimit \in 1 .. MaxLimit
    /\ initialState \in HMStates
    /\ undoRedoManager = createUndoRedoManager(initialState)
    /\ hmLog = <<>>
    /\ hmOverflowed = FALSE
    /\ EngineIdle

HMRecord ==
    \E s \in HMStates :
        /\ undoRedoManager' = UndoRedo_setState(undoRedoManager, s, undoLimit)
        /\ hmLog' = Logged(hmLog, HMCall("record", 0, s, NoValue, undoRedoManager))
        /\ hmOverflowed' = (hmOverflowed \/ undoRedoManager.currentIndex + 1 = undoLimit)
        /\ UNCHANGED <<undoLimit, initialState, engineVars>>

HMUndo ==
    \E k \in HMSteps :
        /\ undoRedoManager' = UndoRedo_undo(undoRedoManager, k)
        /\ hmLog' = Logged(hmLog, HMCall("undo", k, NoValue,
                                         getCurrentState(undoRedoManager'), undoRedoManager))
        /\ UNCHANGED <<undoLimit, initialState, hmOverflowed, engineVars>>

HMRedo ==
    \E k \in HMSteps :
        /\ undoRedoManager' = UndoRedo_redo(undoRedoManager, k)
        /\ hmLog' = Logged(hmLog, HMCall("redo", k, NoValue,
                                         getCurrentState(undoRedoManager'), undoRedoManager))
        /\ UNCHANGED <<undoLimit, initialState, hmOverflowed, engineVars>>

NextHM == HMRecord \/ HMUndo \/ HMRedo

SpecHM == InitHM /\ [][NextHM]_vars

\* ------------------------------------------ properties of the manager
\* The last call and the one before it (an empty call when there was none).
NoCall == HMCall("none", 0, NoValue, NoValue, NoManager)
hmLast == IF Len(hmLog) >= 1 THEN hmLog[Len(hmLog)] ELSE NoCall
hmPrev == IF Len(hmLog) = 2 THEN hmLog[1] ELSE NoCall

\* C1: for every limit >= 1 and every sequence of record(s), undo(k), redo(k)
\* with k >= 0, 0 <= currentIndex < history.length <= limit.
C1_HistoryBounds ==
    /\ 0 <= undoRedoManager.currentIndex
    /\ undoRedoManager.currentIndex < Len(undoRedoManager.history)
    /\ Len(undoRedoManager.history) <= undoLimit

\* A record made on a full history after which the history is still full,
\* followed by an undo that went back.
C1_Witness ==
    /\ hmPrev.op = "record"
    /\ Len(hmPrev.pre.history) = undoLimit
    /\ hmPrev.pre.currentIndex = undoLimit - 1
    /\ hmLast.op = "undo"
    /\ hmLast.steps >= 1
    /\ undoRedoManager.currentIndex < hmLast.pre.currentIndex

\* C6: whenever canUndo(k) holds for k >= 1, undo(k) returns the entry k places
\* before the current one, and a redo(k) right after it returns the entry that
\* was current before the undo and leaves currentIndex and the history as they
\* were before the undo.
C6_UndoRedoInverse ==
    /\ \A i \in 1 .. Len(hmLog) :
          (hmLog[i].op = "undo" /\ hmLog[i].steps >= 1
              /\ UndoRedo_canUndo(hmLog[i].pre, hmLog[i].steps))
          => hmLog[i].ret = entryAt(hmLog[i].pre, hmLog[i].pre.currentIndex - hmLog[i].steps)
    /\ (hmPrev.op = "undo" /\ hmPrev.steps >= 1
           /\ UndoRedo_canUndo(hmPrev.pre, hmPrev.steps)
           /\ hmLast.op = "redo" /\ hmLast.steps = hmPrev.steps)
       => /\ hmLast.ret = getCurrentState(hmPrev.pre)
          /\ undoRedoManager = hmPrev.pre

\* undo(2) then redo(2) from a history of three entries with a redo branch left.
C6_Witness ==
    /\ hmPrev.op = "undo" /\ hmPrev.steps = 2
    /\ UndoRedo_canUndo(hmPrev.pre, 2)
    /\ hmLast.op = "redo" /\ hmLast.steps = 2
    /\ hmLast.ret # hmPrev.ret

\* C7: after an undo(k) that moved the index back, followed by record(Snew):
\* canRedo(j) is false for every j >= 1, current() is Snew, and the history is
\* the entries up to the undone-to position followed by Snew.
C7_TruncationOnNewWrite ==
    (hmPrev.op = "undo" /\ hmLast.pre.currentIndex < hmPrev.pre.currentIndex
        /\ hmLast.op = "record")
    => /\ \A j \in 1 .. MaxSteps + 1 : ~UndoRedo_canRedo(undoRedoManager, j)
       /\ getCurrentState(undoRedoManager) = hmLast.newState
       /\ undoRedoManager.history =
              SubSeq(hmLast.pre.history, 1, hmLast.pre.currentIndex + 1)
                  \o <<hmLast.newState>>

\* An undo that left two entries ahead, then a record.
C7_Witness ==
    /\ hmPrev.op = "undo" /\ hmLast.op = "record"
    /\ hmLast.pre.currentIndex + 2 < Len(hmLast.pre.history)
    /\ hmLast.pre.currentIndex < hmPrev.pre.currentIndex

\* C8: after record(newState) the last entry is newState and currentIndex is
\* history.length - 1; on a history of length limit with no redo branch the
\* result is the previous entries without the oldest, in order, then newState,
\* with length limit and currentIndex limit - 1.
C8_Record ==
    hmLast.op = "record"
    => /\ undoRedoManager.history[Len(undoRedoManager.history)] = hmLast.newState
       /\ undoRedoManager.currentIndex = Len(undoRedoManager.history) - 1
       /\ (Len(hmLast.pre.history) = undoLimit
              /\ hmLast.pre.currentIndex = Len(hmLast.pre.history) - 1)
          => /\ undoRedoManager.history = Tail(hmLast.pre.history) \o <<hmLast.newState>>
             /\ Len(undoRedoManager.history) = undoLimit
             /\ undoRedoManager.currentIndex = undoLimit - 1

\* A record on a full history of at least two entries with no redo branch.
C8_Witness ==
    /\ hmLast.op = "record"
    /\ undoLimit >= 2
    /\ Len(hmLast.pre.history) = undoLimit
    /\ hmLast.pre.currentIndex = undoLimit - 1
    /\ hmLast.pre.history[1] # hmLast.pre.history[2]

\* C9 as stated: after any sequence of record, undo and redo calls the oldest
\* entry of the history is the initial snapshot, and an undo with a large
\* enough step count returns it.
C9_InitialSnapshotKept ==
    /\ entryAt(undoRedoManager, 0) = initialState
    /\ getCurrentState(UndoRedo_undo(undoRedoManager, MaxLimit)) = initialState

\* C9 amended: the history is never empty, and as long as no record was made
\* while currentIndex + 1 = limit, the oldest entry is the initial snapshot and
\* undo(k) with k >= currentIndex returns it.
C9_InitialSnapshotUntilOverflow ==
    /\ Len(undoRedoManager.history) >= 1
    /\ ~hmOverflowed
       => /\ entryAt(undoRedoManager, 0) = initialState
          /\ \A k \in HMSteps :
                k >= undoRedoManager.currentIndex
                => getCurrentState(UndoRedo_undo(undoRedoManager, k)) = initialState
          /\ (hmLast.op = "undo" /\ hmLast.steps >= hmLast.pre.currentIndex)
             => hmLast.ret = initialState

\* Two records that did not overflow, then an undo back to the floor.
C9_Witness ==
    /\ ~hmOverflowed
    /\ hmLast.op = "undo"
    /\ hmLast.pre.currentIndex = 2
    /\ hmLast.steps >= 2
    /\ hmLast.pre.history[2] # initialState
    /\ hmLast.pre.history[3] # initialState

\* ------------------------------------------------- Spec: the form engine
\* createForm has run: the signals hold their first values and
\* initializeState() is suspended on getInitialValue(props.initialState).
\* formStatus is created with five keys; setState and setFieldMetas add the
\* keys isSettingState and isSettingMeta, which read as false until then.
AllFalse ==
    [initializing |-> FALSE, submitting |-> FALSE, validating |-> FALSE,
     settingState |-> FALSE, settingMeta |-> FALSE,
     isSettingState |-> FALSE, isSettingMeta |-> FALSE]

DefaultFieldStatus == [isSettingValue |-> FALSE, isSettingMeta |-> FALSE]

\* The meta record a path has when it has none of its own.
defaultFieldMetaState ==
    [dirty |-> FALSE, disabled |-> FALSE, loading |-> FALSE, readOnly |-> FALSE,
     show |-> TRUE, touched |-> FALSE]

\* The `fieldMetas` signal starts as {}: no path has a record.
NoMetas == [p \in Paths |-> Undefined]

\* Faulty variant of the read of the current record: the default whatever is stored.
currentMeta_default(metas, path) == defaultFieldMetaState

\* fieldMetas()[path] ?? defaultFieldMetaState
currentMeta(metas, path) ==
    IF metas[path] = Undefined THEN defaultFieldMetaState ELSE metas[path]

\* The updates the caller passes for a meta record: a value (the default record
\* with one key set, as a literal), a function and an async function of the
\* previous record (the previous record with one key set).
MetaKeys == {"touched", "dirty"}
MetaUpdates == [kind : {"value", "function", "async"}, key : MetaKeys]

\* getUpdatedValue(prev, update): the update itself, or what it returns for prev.
getUpdatedValue(prev, update) ==
    IF update.kind = "value" THEN [defaultFieldMetaState EXCEPT ![update.key] = TRUE]
    ELSE [prev EXCEPT ![update.key] = TRUE]

InitialiserKinds == {"literal", "async"}

\* The values the caller passes as whole states.
Literals == {obj \in Objs : obj.b = Num(0)}

NoEngineCall ==
    [op |-> "none", steps |-> 0, path |-> <<>>, arg |-> Undefined,
     prev |-> [op |-> "none", path |-> <<>>, outcome |-> "none"],
     pre |-> [state |-> Undefined, faults |-> 0, metas |-> NoMetas, history |-> <<>>,
              currentIndex |-> -1, errors |-> NoErrors],
     handled |-> <<>>, updateRejected |-> FALSE,
     script |-> [phase |-> "start", vals |-> <<>>, undos |-> 0],
     undone |-> Undefined, after |-> Undefined,
     post |-> [state |-> Undefined, oldest |-> Undefined, canUndo |-> FALSE,
               canRedo |-> FALSE, wasModified |-> FALSE, modified |-> {},
               errors |-> [fieldErrors |-> {}, formErrors |-> FALSE],
               submitting |-> FALSE, faults |-> 0, metas |-> NoMetas, history |-> <<>>,
               currentIndex |-> -1, setting |-> {}, outcome |-> "none"]]

InitWith(discipline) ==
    /\ undoLimit \in 1 .. MaxLimit
    /\ \E kind \in InitialiserKinds, obj \in Literals :
          /\ heap = Alloc(<<>>, obj)
          /\ props = [initialState |-> kind,
                      literal      |-> IF kind = "literal" THEN Ref(1) ELSE Undefined,
                      yields       |-> obj]
          /\ ready = Suspend(<<>>, NewFrame("init", "init_resolve", FALSE, Ref(1)),
                             kind = "async")
          /\ pending = Park(<<>>, NewFrame("init", "init_resolve", FALSE, Ref(1)),
                            kind = "async")
    /\ state = Null
    /\ initialState = Null
    /\ undoRedoManager = NoManager
    /\ errors = NoErrors
    /\ formStatus = [AllFalse EXCEPT !.initializing = TRUE]
    /\ fieldStatuses = [p \in Paths |-> DefaultFieldStatus]
    /\ fieldMetas = NoMetas
    /\ caller = "running"
    /\ mode = discipline
    /\ ncalls = 0
    /\ submitted = 0
    /\ faults = 0
    /\ script = [phase |-> "start", vals |-> <<>>, undos |-> 0]
    /\ callLog = NoEngineCall
    /\ calls = <<>>
    /\ hmLog = <<>>
    /\ hmOverflowed = FALSE

\* The caller awaits every call.
Init == InitWith("awaits")

\* canUndo / canRedo of the engine.
canUndo(steps) ==
    IF undoRedoManager = NoManager THEN FALSE ELSE UndoRedo_canUndo(undoRedoManager, steps)

canRedo(steps) ==
    IF undoRedoManager = NoManager THEN FALSE ELSE UndoRedo_canRedo(undoRedoManager, steps)

\* isEqual(a, b): deep equality of two values.
isEqual(h, x, y) == ValueOf(h, x) = ValueOf(h, y)

\* wasModified of the engine.
wasModified == ~isEqual(heap, state, initialState)

\* wasModified of the field view for a path (useField).
fieldWasModified(path) ==
    LET currentState == get(heap, state, path)
        initialValue == get(heap, initialState, path)
    IN  ~isEqual(heap, currentState, initialValue)

\* The values of the history's entries, oldest first.
Snapshots(h, m) == [i \in 1 .. Len(m.history) |-> ValueOf(h, m.history[i])]

\* Initialization has run to its end and nothing is in flight.
Settled ==
    /\ ready = <<>>
    /\ pending = <<>>

Initialized ==
    /\ Settled
    /\ state # Null
    /\ ~formStatus.initializing

\* What the caller has written so far, as it stands when it makes a call: the
\* first call made on a settled, initialized form starts the script.
ScriptNow ==
    IF script.phase # "start" THEN script
    ELSE IF Initialized
         THEN [phase |-> "fresh", vals |-> <<ValueOf(heap, state)>>, undos |-> 0]
         ELSE [phase |-> "other", vals |-> <<>>, undos |-> 0]

NoAfter ==
    [state |-> Undefined, oldest |-> Undefined, canUndo |-> FALSE, canRedo |-> FALSE,
     wasModified |-> FALSE, modified |-> {}, errors |-> NoErrors, submitting |-> FALSE,
     faults |-> 0, metas |-> NoMetas, history |-> <<>>, currentIndex |-> -1,
     setting |-> {}, outcome |-> "none"]

\* The call the caller is making: what it passes and what it knew before.
Called(op, steps, path, arg) ==
    [op |-> op, steps |-> steps, path |-> path, arg |-> arg,
     prev |-> [op |-> callLog.op, path |-> callLog.path, outcome |-> callLog.post.outcome],
     pre |-> [state |-> ValueOf(heap, state), faults |-> faults, metas |-> fieldMetas,
              history |-> Snapshots(heap, undoRedoManager),
              currentIndex |-> undoRedoManager.currentIndex, errors |-> errors],
     handled |-> <<>>, updateRejected |-> FALSE,
     script |-> ScriptNow,
     undone |-> IF callLog.post.outcome = "ok" THEN callLog.after ELSE Undefined,
     after |-> Undefined, post |-> NoAfter]

\* The snapshot that follows the one an undo(k) goes back to, when the index
\* can go back k places.
Following(k) ==
    IF undoRedoManager # NoManager /\ UndoRedo_canUndo(undoRedoManager, k)
    THEN ValueOf(heap, entryAt(undoRedoManager, undoRedoManager.currentIndex - k + 1))
    ELSE Undefined

\* A caller that awaits every call makes the next one on a settled form.
MayCall ==
    /\ caller = "running"
    /\ ncalls < MaxCalls
    /\ mode = "awaits"
    /\ Settled

\* setState(update), up to its first await.  The update is a literal or an
\* async function; either way it yields a new object.
Call_setState ==
    \E obj \in Literals, isAsync \in BOOLEAN :
        LET h1 == Alloc(heap, obj)
            f  == NewFrame("setState", "ss_resolve", TRUE, Ref(FreshAddr(heap)))
        IN  /\ MayCall
            /\ formStatus' = [formStatus EXCEPT !.isSettingState = TRUE]
            /\ ready' = Suspend(ready, f, isAsync)
            /\ pending' = Park(pending, f, isAsync)
            /\ heap' = h1
            /\ caller' = "awaiting"
            /\ ncalls' = ncalls + 1
            /\ callLog' = Called("setState", 0, <<>>, obj)
            /\ UNCHANGED <<props, mode, state, initialState, undoRedoManager, undoLimit, errors,
                           fieldStatuses, submitted, faults, script, hmLog, hmOverflowed, calls, fieldMetas>>

\* undo(steps) / redo(steps), up to the first await of the setState they call.
CallUndoRedo(op, k, moved) ==
    /\ MayCall
    /\ IF undoRedoManager = NoManager
       THEN /\ ready' = Append(ready, CallerToken("ok"))
            /\ UNCHANGED <<undoRedoManager, formStatus>>
       ELSE /\ undoRedoManager' = moved
            /\ formStatus' = [formStatus EXCEPT !.isSettingState = TRUE]
            /\ ready' = Append(ready, NewFrame(op, "ss_resolve", TRUE, getCurrentState(moved)))
    /\ caller' = "awaiting"
    /\ ncalls' = ncalls + 1
    /\ callLog' = [Called(op, k, <<>>, Undefined)
                      EXCEPT !.after = IF op = "undo" THEN Following(k) ELSE Undefined]
    /\ UNCHANGED <<props, mode, heap, state, initialState, undoLimit, errors, fieldStatuses,
                   pending, submitted, faults, script, hmLog, hmOverflowed, calls, fieldMetas>>

Call_undo == \E k \in 1 .. MaxSteps : CallUndoRedo("undo", k, UndoRedo_undo(undoRedoManager, k))

Call_redo == \E k \in 1 .. MaxSteps : CallUndoRedo("redo", k, UndoRedo_redo(undoRedoManager, k))

\* reset(), up to its first await: getInitialValue(props.initialState).
Call_reset ==
    \E obj \in Literals :
        LET fresh == props.initialState # "literal"
            f == NewFrame("reset", "reset_resolve", TRUE,
                          IF fresh THEN Ref(FreshAddr(heap)) ELSE props.literal)
        IN  /\ MayCall
            /\ heap' = IF fresh THEN Alloc(heap, obj) ELSE heap
            /\ ready' = Suspend(ready, f, props.initialState = "async")
            /\ pending' = Park(pending, f, props.initialState = "async")
            /\ caller' = "awaiting"
            /\ ncalls' = ncalls + 1
            /\ callLog' = Called("reset", 0, <<>>, IF fresh THEN obj ELSE Undefined)
            /\ UNCHANGED <<props, mode, state, initialState, undoRedoManager, undoLimit, errors,
                           formStatus, fieldStatuses, submitted, faults, script, hmLog,
                           hmOverflowed, calls, fieldMetas>>

\* setFieldValue(path, update), up to its first await.  get(currentState, path)
\* runs inside the try: when it throws, the finally clears the flag and the
\* promise is rejected.
Call_setFieldValue ==
    \E path \in Paths, val \in FieldVals, isAsync \in BOOLEAN :
        LET f == [NewFrame("setFieldValue", "sfv_resolve", TRUE, val)
                     EXCEPT !.path = path, !.cur = state]
            threw == get(heap, state, path) = TypeError
        IN  /\ MayCall
            /\ fieldStatuses' = [fieldStatuses EXCEPT ![path].isSettingValue = ~threw]
            /\ ready' = IF threw THEN Append(ready, CallerToken("rejected"))
                        ELSE Suspend(ready, f, isAsync)
            /\ pending' = IF threw THEN pending ELSE Park(pending, f, isAsync)
            /\ caller' = "awaiting"
            /\ ncalls' = ncalls + 1
            /\ callLog' = Called("setFieldValue", 0, path, val)
            /\ UNCHANGED <<props, mode, heap, state, initialState, undoRedoManager, undoLimit,
                           errors, formStatus, submitted, faults, script, hmLog,
                           hmOverflowed, calls, fieldMetas>>

\* !initialValue
Falsy(val) == val \in {Null, Undefined, Num(0)}

\* reset() of the field view for a path, up to its first await: nothing more
\* when the initial value is falsy, else setFieldValue(path, initialValue).
Call_fieldReset ==
    \E path \in Paths :
        LET initialValue == get(heap, initialState, path)
            f == [NewFrame("fieldReset", "sfv_resolve", TRUE, initialValue)
                     EXCEPT !.path = path, !.cur = state]
            delegates == initialValue # TypeError /\ ~Falsy(initialValue)
            threw == delegates /\ get(heap, state, path) = TypeError
        IN  /\ MayCall
            /\ fieldStatuses' = IF delegates
                                THEN [fieldStatuses EXCEPT ![path].isSettingValue = ~threw]
                                ELSE fieldStatuses
            /\ ready' = IF initialValue = TypeError \/ threw
                        THEN Append(ready, CallerToken("rejected"))
                        ELSE IF delegates THEN Append(ready, f)
                        ELSE Append(ready, CallerToken("ok"))
            /\ caller' = "awaiting"
            /\ ncalls' = ncalls + 1
            /\ callLog' = Called("fieldReset", 0, path, Undefined)
            /\ UNCHANGED <<props, mode, heap, state, initialState, undoRedoManager, undoLimit,
                           errors, formStatus, pending, submitted, faults, script, hmLog,
                           hmOverflowed, calls, fieldMetas>>

\* submit(), up to the await in revalidate().  validationResult.data is a
\* new object, parsed from the state read when the pass starts.
Call_submit ==
    LET parsed == state.t = "ref" /\ safeParse(heap, state) = NoErrors
        data == IF parsed THEN Ref(FreshAddr(heap)) ELSE Undefined
    IN  /\ MayCall
        /\ formStatus' = [formStatus EXCEPT !.validating = TRUE]
        /\ heap' = IF parsed THEN Alloc(heap, heap[state.v]) ELSE heap
        /\ pending' = Append(pending, [NewFrame("submit", "validate", TRUE, state)
                                          EXCEPT !.errs = safeParse(heap, state),
                                                 !.cur = data])
        /\ caller' = "awaiting"
        /\ ncalls' = ncalls + 1
        /\ callLog' = Called("submit", 0, <<>>, Undefined)
        /\ UNCHANGED <<props, mode, state, initialState, undoRedoManager, undoLimit, errors,
                       fieldStatuses, ready, submitted, faults, script, hmLog, hmOverflowed, calls, fieldMetas>>

\* setFieldMeta(path, update), up to its first await: the path's current
\* record is read before it.
Call_setFieldMeta ==
    \E path \in Paths, update \in MetaUpdates :
        LET f == [NewFrame("setFieldMeta", "sfm_resolve", TRUE, Undefined)
                     EXCEPT !.path = path,
                            !.meta = [currentMeta |-> currentMeta(fieldMetas, path),
                                      update |-> update]]
        IN  /\ MayCall
            /\ fieldStatuses' = [fieldStatuses EXCEPT ![path].isSettingMeta = TRUE]
            /\ ready' = Suspend(ready, f, update.kind = "async")
            /\ pending' = Park(pending, f, update.kind = "async")
            /\ caller' = "awaiting"
            /\ ncalls' = ncalls + 1
            /\ callLog' = Called("setFieldMeta", 0, path, update)
            /\ UNCHANGED <<props, mode, heap, state, initialState, undoRedoManager, undoLimit,
                           errors, formStatus, submitted, faults, script, hmLog,
                           hmOverflowed, calls, fieldMetas>>

\* ------------------------------------------------------ the event loop
\* The heap after a step, with the objects nothing refers to dropped.
Kept(h) ==
    heap' = Collect(h, Roots(state', initialState', undoRedoManager', ready', pending', props'))

\* initializeState() is suspended on the initializer.
InitializerPending ==
    \E q \in {ready, pending} : \E i \in DOMAIN q : q[i].pc = "init_resolve"

\* The continuation at the head of the microtask queue runs when no
\* synchronous code does.
Runs(pc) ==
    /\ caller # "running"
    /\ ready # <<>>
    /\ Head(ready).pc = pc

\* A promise of the environment settles: an async update or initializer, the
\* submit handler.
PromiseSettles ==
    \E i \in DOMAIN pending, outcome \in {"ok", "rejected"} :
        /\ caller # "running"
        /\ pending[i].pc # "validate"
        /\ outcome = "rejected" => faults < MaxFaults
        /\ faults' = IF outcome = "rejected" THEN faults + 1 ELSE faults
        /\ ready' = Append(ready, [pending[i] EXCEPT !.outcome = outcome])
        /\ pending' = RemoveAt(pending, i)
        /\ UNCHANGED <<props, mode, heap, state, initialState, undoRedoManager, undoLimit, errors,
                       formStatus, fieldStatuses, caller, ncalls, submitted, script,
                       callLog, hmLog, hmOverflowed, calls, fieldMetas>>

\* schema.safeParseAsync settles, with a result or by throwing.
ValidationSettles ==
    \E i \in DOMAIN pending, outcome \in {"ok", "rejected"} :
        /\ caller # "running"
        /\ pending[i].pc = "validate"
        /\ outcome = "rejected" => faults < MaxFaults
        /\ faults' = IF outcome = "rejected" THEN faults + 1 ELSE faults
        /\ ready' = Append(ready, [pending[i] EXCEPT !.pc = "reval", !.outcome = outcome])
        /\ pending' = RemoveAt(pending, i)
        /\ UNCHANGED <<props, mode, heap, state, initialState, undoRedoManager, undoLimit, errors,
                       formStatus, fieldStatuses, caller, ncalls, submitted, script,
                       callLog, hmLog, hmOverflowed, calls, fieldMetas>>

\* The await the caller of revalidate() is suspended on.
AfterRevalidate(op) ==
    IF op = "init" THEN "init_finish"
    ELSE IF op = "submit" THEN "submit_check"
    ELSE "ss_finish"

\* revalidate() after its await: the flag is cleared when safeParseAsync
\* returned; when it threw, the rest of revalidate is skipped.
RevalidateResumes ==
    LET f == Head(ready)
    IN  /\ Runs("reval")
        /\ formStatus' = IF f.outcome = "ok" THEN [formStatus EXCEPT !.validating = FALSE]
                         ELSE formStatus
        /\ ready' = Append(Tail(ready), [f EXCEPT !.pc = AfterRevalidate(f.op)])
        /\ UNCHANGED <<props, mode, heap, state, initialState, undoRedoManager, undoLimit, errors,
                       fieldStatuses, pending, caller, ncalls, submitted, faults, script,
                       callLog, hmLog, hmOverflowed, calls, fieldMetas>>

\* Faulty variant of initializeState's finally: the flag is left as it is.
initializeFinally_missing(status) == status

\* The finally of initializeState.
initializeFinally(status) == [status EXCEPT !.initializing = FALSE]

\* initializeState() after getInitialValue.
InitResolves ==
    LET f == Head(ready)
    IN  /\ Runs("init_resolve")
        /\ IF f.outcome = "ok"
           THEN /\ initialState' = f.next
                /\ state' = f.next
                /\ undoRedoManager' = createUndoRedoManager(f.next)
                /\ formStatus' = [formStatus EXCEPT !.validating = TRUE]
                /\ pending' = Append(pending, [f EXCEPT !.pc = "validate",
                                                        !.errs = safeParse(heap, f.next)])
           ELSE /\ formStatus' = initializeFinally(formStatus)
                /\ UNCHANGED <<initialState, state, undoRedoManager, pending>>
        /\ ready' = Tail(ready)
        /\ UNCHANGED <<props, mode, undoLimit, errors, fieldStatuses, caller, ncalls, submitted,
                       faults, script, callLog, hmLog, hmOverflowed, calls, fieldMetas>>
        /\ Kept(heap)

\* initializeState() after revalidate().
InitFinishes ==
    LET f == Head(ready)
    IN  /\ Runs("init_finish")
        /\ errors' = IF f.outcome = "ok" /\ f.errs # NoErrors THEN f.errs ELSE errors
        /\ formStatus' = initializeFinally(formStatus)
        /\ ready' = Tail(ready)
        /\ UNCHANGED <<props, mode, state, initialState, undoRedoManager, undoLimit, fieldStatuses,
                       pending, caller, ncalls, submitted, faults, script, callLog, hmLog,
                       hmOverflowed, calls, fieldMetas>>
        /\ Kept(heap)

\* Faulty variant of the await of the update: a rejection is not thrown.
accepted_always(f) == TRUE

\* `await getUpdatedValue(...)` returned: the update did not reject.
accepted(f) == f.outcome = "ok"

\* The awaiting caller's call had its update rejected.
Noted(log, f) == IF f.awaited /\ f.outcome # "ok" THEN [log EXCEPT !.updateRejected = TRUE]
                 ELSE log

\* setState after getUpdatedValue: the write, the record, the start of the
\* validation pass.
SetStateResolves ==
    LET f == Head(ready)
    IN  /\ Runs("ss_resolve")
        /\ IF accepted(f)
           THEN /\ state' = f.next
                /\ undoRedoManager' =
                      IF undoRedoManager = NoManager THEN NoManager
                      ELSE UndoRedo_setState(undoRedoManager, f.next, undoLimit)
                /\ formStatus' = [formStatus EXCEPT !.validating = TRUE]
                /\ pending' = Append(pending, [f EXCEPT !.pc = "validate",
                                                        !.errs = safeParse(heap, f.next)])
                /\ ready' = Tail(ready)
           ELSE /\ formStatus' = [formStatus EXCEPT !.isSettingState = FALSE]
                /\ ready' = Complete(Tail(ready), f, "rejected")
                /\ UNCHANGED <<state, undoRedoManager, pending>>
        /\ calls' = IF f.id = 0 THEN calls
                    ELSE IF f.outcome = "ok"
                    THEN [calls EXCEPT ![f.id].written = ValueOf(heap, f.next),
                                       ![f.id].at = 1 + Cardinality({i \in DOMAIN calls :
                                                                        calls[i].at # 0})]
                    ELSE [calls EXCEPT ![f.id].status = "rejected",
                                       ![f.id].seen = ValueOf(heap, state),
                                       ![f.id].beforeInit = InitializerPending]
        /\ callLog' = Noted(callLog, f)
        /\ UNCHANGED <<props, mode, initialState, undoLimit, errors, fieldStatuses, caller, ncalls,
                       submitted, faults, script, hmLog, hmOverflowed, fieldMetas>>
        /\ Kept(heap)

\* setState after revalidate(): the errors, then the finally.
SetStateFinishes ==
    LET f == Head(ready)
    IN  /\ Runs("ss_finish")
        /\ errors' = IF f.outcome = "ok" /\ f.errs # NoErrors THEN f.errs ELSE errors
        /\ formStatus' = [formStatus EXCEPT !.isSettingState = FALSE]
        /\ ready' = IF f.op = "setState" THEN Complete(Tail(ready), f, f.outcome)
                    ELSE Append(Tail(ready), [f EXCEPT !.pc = "return"])
        /\ calls' = IF f.id = 0 THEN calls
                    ELSE [calls EXCEPT ![f.id].status = f.outcome,
                                       ![f.id].seen = ValueOf(heap, state),
                                       ![f.id].beforeInit = InitializerPending]
        /\ UNCHANGED <<props, mode, state, initialState, undoRedoManager, undoLimit, fieldStatuses,
                       pending, caller, ncalls, submitted, faults, script, callLog, hmLog,
                       hmOverflowed, fieldMetas>>
        /\ Kept(heap)

\* undo, redo and reset after `await setState(...)`; the field view's reset
\* after `await form.setFieldValue(...)`.
CallReturns ==
    LET f == Head(ready)
    IN  /\ Runs("return")
        /\ ready' = Complete(Tail(ready), f, f.outcome)
        /\ UNCHANGED <<props, mode, state, initialState, undoRedoManager, undoLimit, errors,
                       formStatus, fieldStatuses, pending, caller, ncalls, submitted, faults,
                       script, callLog, hmLog, hmOverflowed, calls, fieldMetas>>
        /\ Kept(heap)

\* reset after getInitialValue: setState(initialState) up to its first await.
ResetResolves ==
    LET f == Head(ready)
    IN  /\ Runs("reset_resolve")
        /\ IF f.outcome = "ok"
           THEN /\ formStatus' = [formStatus EXCEPT !.isSettingState = TRUE]
                /\ ready' = Append(Tail(ready), [f EXCEPT !.pc = "ss_resolve"])
           ELSE /\ ready' = Complete(Tail(ready), f, "rejected")
                /\ UNCHANGED formStatus
        /\ UNCHANGED <<props, mode, state, initialState, undoRedoManager, undoLimit, errors,
                       fieldStatuses, pending, caller, ncalls, submitted, faults, script,
                       callLog, hmLog, hmOverflowed, calls, fieldMetas>>
        /\ Kept(heap)

\* setFieldValue after getUpdatedValue: set on the object read before the
\* await, setState(nextState) started and not awaited, then the finally.
SetFieldValueResolves ==
    LET f == Head(ready)
        child == NewFrame("setState", "ss_resolve", FALSE, f.cur)
        writes == accepted(f) /\ f.cur.t = "ref"
        written == IF writes THEN set(heap, f.cur, f.path, f.next) ELSE heap
    IN  /\ Runs("sfv_resolve")
        /\ formStatus' = IF writes THEN [formStatus EXCEPT !.isSettingState = TRUE]
                         ELSE formStatus
        /\ fieldStatuses' = [fieldStatuses EXCEPT ![f.path].isSettingValue = FALSE]
        /\ ready' = LET q == IF writes THEN Append(Tail(ready), child) ELSE Tail(ready)
                    IN  IF f.op # "setFieldValue" THEN Append(q, [f EXCEPT !.pc = "return"])
                        ELSE Complete(q, f, f.outcome)
        /\ calls' = IF f.id = 0 THEN calls
                    ELSE [calls EXCEPT ![f.id].status = f.outcome,
                                       ![f.id].seen = ValueOf(written, state)]
        /\ callLog' = Noted(callLog, f)
        /\ UNCHANGED <<props, mode, state, initialState, undoRedoManager, undoLimit, errors,
                       pending, caller, ncalls, submitted, faults, script, hmLog,
                       hmOverflowed, fieldMetas>>
        /\ Kept(written)

\* setFieldMeta after getUpdatedValue: setFieldMetas(prev => ({...prev, [path]: next}))
\* started and not awaited, which calls its update on fieldMetas() at once and
\* suspends on the result; then the finally.
SetFieldMetaResolves ==
    LET f == Head(ready)
        next == getUpdatedValue(f.meta.currentMeta, f.meta.update)
        child == [NewFrame("setFieldMetas", "sfms_resolve", FALSE, Undefined)
                     EXCEPT !.meta = [fieldMetas EXCEPT ![f.path] = next]]
    IN  /\ Runs("sfm_resolve")
        /\ formStatus' = IF f.outcome = "ok" THEN [formStatus EXCEPT !.isSettingMeta = TRUE]
                         ELSE formStatus
        /\ fieldStatuses' = [fieldStatuses EXCEPT ![f.path].isSettingMeta = FALSE]
        /\ ready' = Complete(IF f.outcome = "ok" THEN Append(Tail(ready), child)
                             ELSE Tail(ready),
                             f, f.outcome)
        /\ calls' = IF f.id = 0 THEN calls
                    ELSE [calls EXCEPT ![f.id].status = f.outcome,
                                       ![f.id].written = IF f.outcome = "ok" THEN next
                                                         ELSE Undefined]
        /\ UNCHANGED <<props, mode, heap, state, initialState, undoRedoManager, undoLimit,
                       errors, pending, caller, ncalls, submitted, faults, script, callLog,
                       hmLog, hmOverflowed, fieldMetas>>

\* setFieldMetas after getUpdatedValue: the write, then the finally.
SetFieldMetasResolves ==
    LET f == Head(ready)
    IN  /\ Runs("sfms_resolve")
        /\ fieldMetas' = f.meta
        /\ formStatus' = [formStatus EXCEPT !.isSettingMeta = FALSE]
        /\ ready' = Complete(Tail(ready), f, f.outcome)
        /\ UNCHANGED <<props, mode, heap, state, initialState, undoRedoManager, undoLimit,
                       errors, fieldStatuses, pending, caller, ncalls, submitted, faults,
                       script, callLog, hmLog, hmOverflowed, calls>>

\* Faulty variant of the success test: the handler is invoked whatever the result.
success_ignored(f) == f.outcome = "ok"

\* validationResult.success of the pass that call chain f awaited.
success(f) == f.outcome = "ok" /\ f.errs = NoErrors

\* submit after revalidate(): nothing more on a failed validation, else the
\* handler is invoked.
SubmitChecks ==
    \E isAsync \in BOOLEAN :
        LET f == Head(ready)
            valid == success(f)
        IN  /\ Runs("submit_check")
            /\ formStatus' = IF valid THEN [formStatus EXCEPT !.submitting = TRUE]
                             ELSE formStatus
            /\ submitted' = IF valid THEN submitted + 1 ELSE submitted
            /\ ready' = IF valid THEN Suspend(Tail(ready), [f EXCEPT !.pc = "handler"], isAsync)
                        ELSE Complete(Tail(ready), f, f.outcome)
            /\ pending' = IF valid THEN Park(pending, [f EXCEPT !.pc = "handler"], isAsync)
                          ELSE pending
            /\ callLog' = IF valid THEN [callLog EXCEPT !.handled = Append(@, ValueOf(heap, f.cur))]
                          ELSE callLog
            /\ UNCHANGED <<props, mode, state, initialState, undoRedoManager, undoLimit, errors,
                           fieldStatuses, caller, ncalls, faults, script, hmLog,
                           hmOverflowed, calls, fieldMetas>>
            /\ Kept(heap)

\* Faulty variant of submit's finally: the flag is left as it is.
submitFinally_missing(status) == status

\* The finally of submit.
submitFinally(status) == [status EXCEPT !.submitting = FALSE]

\* submit after the handler: the finally.
SubmitFinishes ==
    LET f == Head(ready)
    IN  /\ Runs("handler")
        /\ formStatus' = submitFinally(formStatus)
        /\ ready' = Complete(Tail(ready), f, f.outcome)
        /\ UNCHANGED <<props, mode, state, initialState, undoRedoManager, undoLimit, errors,
                       fieldStatuses, pending, caller, ncalls, submitted, faults, script,
                       callLog, hmLog, hmOverflowed, calls, fieldMetas>>
        /\ Kept(heap)

\* The writes and single undos made since a settled initialization.
NextScript(call, outcome) ==
    LET s == call.script
    IN  IF call.op = "setState" /\ outcome = "ok" /\ s.phase \in {"fresh", "writes"}
        THEN [phase |-> "writes", vals |-> Append(s.vals, call.arg), undos |-> 0]
        ELSE IF call.op = "undo" /\ call.steps = 1 /\ outcome = "ok"
                /\ s.phase \in {"writes", "undos"}
        THEN [s EXCEPT !.phase = "undos", !.undos = @ + 1]
        ELSE [phase |-> "other", vals |-> <<>>, undos |-> 0]

\* The awaited promise has settled: the caller goes on and looks at the form.
CallerResumes ==
    LET f == Head(ready)
    IN  /\ Runs("resume")
        /\ caller' = "running"
        /\ ready' = Tail(ready)
        /\ callLog' = [callLog EXCEPT !.post =
                          [state |-> ValueOf(heap, state),
                           oldest |-> IF undoRedoManager = NoManager THEN Undefined
                                      ELSE ValueOf(heap, entryAt(undoRedoManager, 0)),
                           canUndo |-> canUndo(1), canRedo |-> canRedo(1),
                           wasModified |-> wasModified,
                           errors |-> errors,
                           submitting |-> formStatus.submitting,
                           faults |-> faults,
                           metas |-> fieldMetas,
                           history |-> Snapshots(heap, undoRedoManager),
                           currentIndex |-> undoRedoManager.currentIndex,
                           setting |-> {p \in Paths : fieldStatuses[p].isSettingValue},
                           modified |-> {p \in Paths : state.t = "ref" /\ fieldWasModified(p)},
                           outcome |-> f.outcome]]
        /\ script' = NextScript(callLog, f.outcome)
        /\ UNCHANGED <<props, mode, heap, state, initialState, undoRedoManager, undoLimit, errors,
                       formStatus, fieldStatuses, pending, ncalls, submitted, faults, hmLog,
                       hmOverflowed, calls, fieldMetas>>

\* The caller waits for a timer (waitFor): it goes on once the microtask
\* queue is empty.
CallerSleeps ==
    /\ caller = "running"
    /\ ready # <<>> \/ pending # <<>>
    /\ caller' = "sleeping"
    /\ UNCHANGED <<props, mode, heap, state, initialState, undoRedoManager, undoLimit, errors,
                   formStatus, fieldStatuses, ready, pending, ncalls, submitted, faults,
                   script, callLog, hmLog, hmOverflowed, calls, fieldMetas>>

CallerWakes ==
    /\ caller = "sleeping"
    /\ ready = <<>>
    /\ mode = "awaits" => pending = <<>>
    /\ caller' = "running"
    /\ UNCHANGED <<props, mode, heap, state, initialState, undoRedoManager, undoLimit, errors,
                   formStatus, fieldStatuses, ready, pending, ncalls, submitted, faults,
                   script, callLog, hmLog, hmOverflowed, calls, fieldMetas>>

Next ==
    \/ Call_setState
    \/ Call_undo
    \/ Call_redo
    \/ Call_reset
    \/ Call_setFieldValue
    \/ Call_fieldReset
    \/ Call_submit
    \/ PromiseSettles
    \/ ValidationSettles
    \/ RevalidateResumes
    \/ InitResolves
    \/ InitFinishes
    \/ SetStateResolves
    \/ SetStateFinishes
    \/ CallReturns
    \/ ResetResolves
    \/ SetFieldValueResolves
    \/ SubmitChecks
    \/ SubmitFinishes
    \/ CallerResumes
    \/ CallerSleeps
    \/ CallerWakes

Spec == Init /\ [][Next]_vars

\* ------------------------------------ SpecMeta: the field meta records
\* The caller awaits every call, and makes setFieldMeta and setState calls.
NextMeta ==
    \/ Call_setFieldMeta
    \/ Call_setState
    \/ PromiseSettles
    \/ ValidationSettles
    \/ RevalidateResumes
    \/ InitResolves
    \/ InitFinishes
    \/ SetStateResolves
    \/ SetStateFinishes
    \/ SetFieldMetaResolves
    \/ SetFieldMetasResolves
    \/ CallerResumes
    \/ CallerSleeps
    \/ CallerWakes

SpecMeta == Init /\ [][NextMeta]_vars

\* ------------------------------ SpecOverlap: calls that are not awaited
\* The caller starts setFieldValue calls on an initialized form without
\* awaiting them, so that their asynchronous updates overlap.
InitOverlap == InitWith("overlaps")

\* A call made without awaiting it: what it passes, the state before it,
\* whether initialization was still running, the calls still in flight when
\* it is made; then the value it wrote and its place among the writes; and in
\* the end how it settled, the state at that moment, and whether the
\* initializer was still pending then.
Started(path, arg) ==
    [path |-> path, arg |-> arg, before |-> ValueOf(heap, state),
     early |-> formStatus.initializing,
     during |-> {i \in DOMAIN calls : calls[i].status = "pending"},
     written |-> Undefined, at |-> 0,
     status |-> "pending", seen |-> Undefined, beforeInit |-> FALSE]

\* setFieldValue(path, update) up to its first await, the promise kept for later.
Start_setFieldValue ==
    \E path \in Paths, val \in FieldVals, isAsync \in BOOLEAN :
        LET f == [NewFrame("setFieldValue", "sfv_resolve", FALSE, val)
                     EXCEPT !.path = path, !.cur = state, !.id = Len(calls) + 1]
        IN  /\ caller = "running"
            /\ mode = "overlaps"
            /\ ncalls < MaxOverlap
            /\ state # Null
            /\ ~formStatus.initializing
            /\ fieldStatuses' = [fieldStatuses EXCEPT ![path].isSettingValue = TRUE]
            /\ ready' = Suspend(ready, f, isAsync)
            /\ pending' = Park(pending, f, isAsync)
            /\ ncalls' = ncalls + 1
            /\ calls' = Append(calls, Started(path, val))
            /\ UNCHANGED <<props, mode, heap, state, initialState, undoRedoManager, undoLimit,
                           errors, formStatus, caller, submitted, faults, script, callLog,
                           hmLog, hmOverflowed, fieldMetas>>

NextOverlap ==
    \/ Start_setFieldValue
    \/ PromiseSettles
    \/ ValidationSettles
    \/ RevalidateResumes
    \/ InitResolves
    \/ InitFinishes
    \/ SetStateResolves
    \/ SetStateFinishes
    \/ SetFieldValueResolves
    \/ CallerSleeps
    \/ CallerWakes

SpecOverlap == InitOverlap /\ [][NextOverlap]_vars

\* ------------------------------- SpecRace: setState calls not awaited
\* The caller starts setState calls without awaiting them, at any moment from
\* construction on, so that they overlap each other and the initialization.
InitRace == InitWith("races")

\* The updates the caller passes to setState: a value, or an async function
\* of the previous state that counts field a up by a step, from 0 when the
\* previous state is null:
\*   async prev => ({a: ((prev?.a ?? 0) + step) % N, b: prev?.b ?? 0})
StateUpdates ==
    {[kind |-> "value", obj |-> obj, step |-> 0] : obj \in Literals}
        \cup {[kind |-> "async", obj |-> Undefined, step |-> k] : k \in 1 .. 2}

\* Faulty variant of resolved: the updater is handed no state.
resolved_withoutPrev(update, prev) ==
    IF update.kind = "value" THEN update.obj
    ELSE [a |-> Num(update.step % (MaxField + 1)), b |-> Num(0)]

\* What getUpdatedValue(prev, update) resolves to.
resolved(update, prev) ==
    IF update.kind = "value" THEN update.obj
    ELSE [a |-> Num(((IF prev \in Objs THEN prev.a.v ELSE 0) + update.step) % (MaxField + 1)),
          b |-> IF prev \in Objs THEN prev.b ELSE Num(0)]

\* setState(update) up to its first await, the promise kept for later:
\* getUpdatedValue(state(), update) hands the updater the state of this moment.
Start_setState ==
    \E update \in StateUpdates :
        LET f == [NewFrame("setState", "ss_resolve", FALSE, Ref(FreshAddr(heap)))
                     EXCEPT !.id = Len(calls) + 1]
        IN  /\ caller = "running"
            /\ mode = "races"
            /\ ncalls < MaxOverlap
            /\ formStatus' = [formStatus EXCEPT !.isSettingState = TRUE]
            /\ heap' = Alloc(heap, resolved(update, ValueOf(heap, state)))
            /\ ready' = Suspend(ready, f, update.kind = "async")
            /\ pending' = Park(pending, f, update.kind = "async")
            /\ ncalls' = ncalls + 1
            /\ calls' = Append(calls, Started(<<>>, update))
            /\ UNCHANGED <<props, mode, state, initialState, undoRedoManager, undoLimit, errors,
                           fieldStatuses, caller, submitted, faults, script, callLog, hmLog,
                           hmOverflowed, fieldMetas>>

NextRace ==
    \/ Start_setState
    \/ PromiseSettles
    \/ ValidationSettles
    \/ RevalidateResumes
    \/ InitResolves
    \/ InitFinishes
    \/ SetStateResolves
    \/ SetStateFinishes
    \/ CallerSleeps
    \/ CallerWakes

SpecRace == InitRace /\ [][NextRace]_vars

\* ------------------------------------------- properties of the engine
\* The caller's last call has settled without an error.
LastCallDone(op) ==
    /\ callLog.op = op
    /\ callLog.post.outcome = "ok"

\* The writes the caller had made when it made its last call: S0 .. Sn.
Written == callLog.script.vals
WrittenCount == Len(Written) - 1

\* C2: no engine operation changes the value of a history entry that was
\* recorded earlier: an entry that stays in the history keeps its value.
C2_HistoryEntriesKeepTheirValue ==
    [][\A x \in Range(undoRedoManager.history) :
          x \in Range(undoRedoManager'.history) => ValueOf(heap', x) = ValueOf(heap, x)]_vars

\* C3 as stated: after initialization and n awaited setState calls writing
\* S1 .. Sn with no undo in between, an awaited undo(k) leaves state() equal
\* to S(n-k) when 1 <= k <= n, and to the oldest retained snapshot when k > n.
C3_UndoGoesBackK ==
    (LastCallDone("undo") /\ callLog.script.phase \in {"fresh", "writes"})
    => IF callLog.steps <= WrittenCount
       THEN callLog.post.state = Written[WrittenCount - callLog.steps + 1]
       ELSE callLog.post.state = callLog.post.oldest

\* C3 amended: S(n-k) when 1 <= k <= n and k <= limit - 1; otherwise the oldest
\* retained snapshot, which is S(n - (limit - 1)) when n >= limit and S0 when not.
C3_UndoGoesBackKWithinLimit ==
    (LastCallDone("undo") /\ callLog.script.phase \in {"fresh", "writes"})
    => /\ (callLog.steps <= WrittenCount /\ callLog.steps <= undoLimit - 1)
          => callLog.post.state = Written[WrittenCount - callLog.steps + 1]
       /\ ~(callLog.steps <= WrittenCount /\ callLog.steps <= undoLimit - 1)
          => /\ callLog.post.state = callLog.post.oldest
             /\ callLog.post.state =
                   Written[Max(WrittenCount - (undoLimit - 1), 0) + 1]

\* Two different writes, then undo(2) within the limit.
C3_Witness ==
    /\ LastCallDone("undo")
    /\ callLog.script.phase = "writes"
    /\ callLog.steps = 2
    /\ WrittenCount = 2
    /\ undoLimit >= 3
    /\ Written[1] # Written[2]
    /\ Written[1] # Written[3]

\* C4: after an awaited undo(k) that went back k >= 1 snapshots canRedo() is
\* true, and an awaited redo() sets state() to the snapshot that immediately
\* followed the restored one before the undo.
C4_RedoAfterUndo ==
    /\ (LastCallDone("undo") /\ callLog.after # Undefined) => callLog.post.canRedo
    /\ (LastCallDone("redo") /\ callLog.steps = 1 /\ callLog.undone # Undefined)
       => callLog.post.state = callLog.undone

\* C5: a freshly initialized engine has canUndo() and canRedo() false; after
\* n >= 1 awaited setState calls and then m <= n awaited undo() calls,
\* canUndo() is true exactly when m < n and canRedo() exactly when m > 0.
C5_CanUndoCanRedo ==
    /\ (Initialized /\ ncalls = 0) => (~canUndo(1) /\ ~canRedo(1))
    /\ (callLog.post.outcome = "ok" /\ script.phase \in {"writes", "undos"}
           /\ script.undos <= Len(script.vals) - 1)
       => /\ callLog.post.canUndo = (script.undos < Len(script.vals) - 1)
          /\ callLog.post.canRedo = (script.undos > 0)

\* C10: the value initialState() returns once initialization has completed
\* never changes.
C10_InitialStateNeverChanges ==
    [][initialState # Null
          => /\ initialState' = initialState
             /\ ValueOf(heap', initialState') = ValueOf(heap, initialState)]_vars

\* C11: wasModified() of the form and of the field view for a path p are
\* false right after initialization, and true after an awaited setState or
\* setFieldValue on p that makes state(), resp. the value at p, differ from
\* the state captured at initialization.
C11_WasModified ==
    /\ (Initialized /\ ncalls = 0)
       => (~wasModified /\ \A p \in Paths : ~fieldWasModified(p))
    /\ (LastCallDone("setState") /\ initialState # Null
           /\ callLog.post.state # props.yields)
       => callLog.post.wasModified
    /\ (LastCallDone("setFieldValue") /\ initialState # Null
           /\ callLog.post.state[callLog.path[1]] # props.yields[callLog.path[1]])
       => (callLog.post.wasModified /\ callLog.path \in callLog.post.modified)

\* C12: reset() of the field view for a path p: after setValue wrote a value
\* to p and reset() has settled, the value at p in state() equals the value
\* at p in the state captured at initialization, whatever the initial value.
C12_FieldResetRestores ==
    (LastCallDone("fieldReset") /\ initialState # Null
        /\ callLog.prev.op = "setFieldValue" /\ callLog.prev.outcome = "ok"
        /\ callLog.prev.path = callLog.path)
    => callLog.post.state[callLog.path[1]] = props.yields[callLog.path[1]]

\* C13: after an awaited engine reset(), state() is deep-equal to the initial
\* state the initializer yields for that reset (for a literal initializer the
\* value given at construction) and wasModified() is false.
C13_ResetYieldsInitialState ==
    (LastCallDone("reset") /\ initialState # Null)
    => /\ callLog.post.state =
             IF props.initialState = "literal" THEN props.yields ELSE callLog.arg
       /\ ~callLog.post.wasModified

\* C14: every completed validation pass replaces errors() with that pass's
\* result: after an awaited setState whose validation pass returned, errors()
\* is the result for the state written, with no field errors and no form
\* errors when that state satisfies the schema.
C14_ErrorsReplacedByEachPass ==
    LastCallDone("setState") => callLog.post.errors = flatten(callLog.arg)

\* The caller's last call was submit and its promise has settled.
SubmitSettled ==
    /\ callLog.op = "submit"
    /\ callLog.post.outcome # "none"

\* The state that submit read satisfies the schema.
SubmittedValid ==
    /\ callLog.pre.state \in Objs
    /\ flatten(callLog.pre.state) = NoErrors

\* C15: submit() invokes the submit handler exactly once, with the validated
\* data, when validation of the current state succeeds; it never invokes it
\* and resolves without an error when validation fails; submit changes
\* neither state() nor the history.
C15_SubmitContract ==
    /\ [](SubmitSettled
          => /\ Len(callLog.handled) <= 1
             /\ callLog.handled # <<>>
                => (SubmittedValid /\ callLog.handled[1] = callLog.pre.state)
             /\ callLog.post.faults = callLog.pre.faults
                => IF SubmittedValid
                   THEN Len(callLog.handled) = 1
                   ELSE callLog.handled = <<>> /\ callLog.post.outcome = "ok")
    /\ [][(callLog.op = "submit" /\ callLog.post.outcome = "none")
             => /\ state' = state
                /\ undoRedoManager' = undoRedoManager
                /\ \A x \in Range(undoRedoManager.history) :
                      ValueOf(heap', x) = ValueOf(heap, x)]_vars

\* A submit on a valid state has settled and the handler got the data.
C15_Witness ==
    /\ SubmitSettled
    /\ SubmittedValid
    /\ callLog.handled = <<callLog.pre.state>>
    /\ submitted = 1
    /\ callLog.post.outcome = "ok"

\* The submit handler has been invoked and has not returned to submit yet.
HandlerRuns ==
    \/ \E i \in DOMAIN pending : pending[i].pc = "handler"
    \/ \E i \in DOMAIN ready : ready[i].pc = "handler"

\* The handler of the caller's last submit was invoked and rejected.
HandlerFailed ==
    /\ SubmitSettled
    /\ callLog.handled # <<>>
    /\ callLog.post.faults > callLog.pre.faults

\* C16: formStatus().submitting is true while the submit handler runs and
\* false once submit has settled, also when the handler fails; the failure
\* then propagates to the caller of submit.
C16_SubmittingScoped ==
    /\ HandlerRuns => formStatus.submitting
    /\ SubmitSettled => ~callLog.post.submitting
    /\ HandlerFailed => callLog.post.outcome = "rejected"

\* A submit whose handler rejected has settled.
C16_Witness ==
    /\ HandlerFailed
    /\ callLog.post.outcome = "rejected"
    /\ ~formStatus.submitting

\* A setState call has started and has not settled: called by the caller or
\* by undo, redo, reset or setFieldValue.
SetStateInFlight ==
    \E q \in {ready, pending} : \E i \in DOMAIN q :
        /\ q[i].op \notin {"init", "submit", "caller"}
        /\ q[i].pc \in {"ss_resolve", "validate", "reval", "ss_finish"}

\* C17: formStatus().settingState is true from the start of a setState call
\* until that call settles, and false when no setState call is in flight.
C17_SettingStateScoped == formStatus.settingState <=> SetStateInFlight

\* A validation pass has started and revalidate() has not been left yet.
PassInFlight ==
    \E q \in {ready, pending} : \E i \in DOMAIN q : q[i].pc \in {"validate", "reval"}

\* C18: formStatus().validating is false after a validation pass has ended,
\* both when the pass returns a result and when the validator throws or rejects.
C18_ValidatingReleased == ~PassInFlight => ~formStatus.validating

\* ------------------------------------- properties of overlapping calls
\* A setFieldValue call on path p is suspended in queue q.
InFlightOn(p, q) == \E i \in DOMAIN q : q[i].pc = "sfv_resolve" /\ q[i].path = p

\* C19: fieldStatuses()[p].isSettingValue is true at every moment while a
\* setFieldValue call on p is suspended on its asynchronous update, and false
\* before any call on p and once no call on p is in flight.
C19_IsSettingValueScoped ==
    \A p \in Paths :
        /\ InFlightOn(p, pending) => fieldStatuses[p].isSettingValue
        /\ (~InFlightOn(p, pending) /\ ~InFlightOn(p, ready))
           => ~fieldStatuses[p].isSettingValue

\* No other call was made on the path of call i.
Unshared(i) == \A j \in DOMAIN calls : j # i => calls[j].path # calls[i].path

\* C20: once a setFieldValue(p, u) on an initialized engine has settled, the
\* value at p in state() is the resolved update, and it stays so when no
\* other call writes p, also when another call on a different path overlaps
\* it; the value at a path changes only when a setFieldValue on that very
\* path settles, and then to its resolved update.
C20_SetFieldValueFrame ==
    /\ [](\A i \in DOMAIN calls :
             calls[i].status = "ok"
             => /\ calls[i].seen[calls[i].path[1]] = calls[i].arg
                /\ Unshared(i) => get(heap, state, calls[i].path) = calls[i].arg)
    /\ [][(state.t = "ref" /\ state'.t = "ref")
             => \A q \in Paths :
                   get(heap', state', q) # get(heap, state, q)
                   => /\ Runs("sfv_resolve")
                      /\ Head(ready).path = q
                      /\ get(heap', state', q) = Head(ready).next]_vars

\* Two calls on different paths whose updates overlapped have both settled,
\* each having changed its field.
C20_Witness ==
    /\ Settled
    /\ Len(calls) = 2
    /\ calls[1].status = "ok"
    /\ calls[2].status = "ok"
    /\ calls[1].path # calls[2].path
    /\ 1 \in calls[2].during
    /\ calls[1].before[calls[1].path[1]] # calls[1].arg
    /\ calls[2].before[calls[2].path[1]] # calls[2].arg
    /\ get(heap, state, calls[1].path) = calls[1].arg
    /\ get(heap, state, calls[2].path) = calls[2].arg

\* The asynchronous update of the caller's last call, a setState or a
\* setFieldValue, rejected, and the call has settled.
UpdateRejected ==
    /\ callLog.op \in {"setState", "setFieldValue"}
    /\ callLog.updateRejected
    /\ callLog.post.outcome # "none"

\* C23: when the asynchronous update passed to setState or to setFieldValue
\* rejects, the rejection propagates to the caller, state(), the history
\* (entries and currentIndex) and errors() are the same as before the call,
\* and for setFieldValue the path's isSettingValue flag is false afterwards.
C23_RejectedUpdate ==
    UpdateRejected
    => /\ callLog.post.outcome = "rejected"
       /\ callLog.post.state = callLog.pre.state
       /\ callLog.post.history = callLog.pre.history
       /\ callLog.post.currentIndex = callLog.pre.currentIndex
       /\ callLog.post.errors = callLog.pre.errors
       /\ callLog.op = "setFieldValue" => callLog.path \notin callLog.post.setting

\* A setFieldValue whose update rejected has settled, on a form with two
\* history entries and errors.
C23_Witness ==
    /\ UpdateRejected
    /\ callLog.op = "setFieldValue"
    /\ callLog.pre.state \in Objs
    /\ callLog.pre.currentIndex >= 1
    /\ callLog.pre.errors # NoErrors
    /\ callLog.post.outcome = "rejected"

\* ------------------------------------- properties of the meta records
\* The caller's last call is setFieldMeta and its promise has not settled.
MetaCallRunning ==
    /\ callLog.op = "setFieldMeta"
    /\ callLog.post.outcome = "none"

\* C21: after an awaited setFieldMeta(p, u) with no other operation in flight,
\* fieldMetas()[p] equals the update resolved against the path's current
\* record (the default record when the path is absent), and state(), the
\* history and errors() are unchanged and no validation pass was started.
C21_SetFieldMetaContract ==
    /\ [](LastCallDone("setFieldMeta")
          => callLog.post.metas[callLog.path] =
                getUpdatedValue(IF callLog.pre.metas[callLog.path] = Undefined
                                THEN defaultFieldMetaState
                                ELSE callLog.pre.metas[callLog.path],
                                callLog.arg))
    /\ [][(MetaCallRunning \/ MetaCallRunning')
             => /\ state' = state
                /\ undoRedoManager' = undoRedoManager
                /\ \A x \in Range(undoRedoManager.history) :
                      ValueOf(heap', x) = ValueOf(heap, x)
                /\ errors' = errors
                /\ ~PassInFlight']_vars

\* A function update on a path whose record already had another key set has
\* settled on a form whose state has errors.
C21_Witness ==
    /\ LastCallDone("setFieldMeta")
    /\ callLog.arg.kind # "value"
    /\ callLog.pre.metas[callLog.path] # Undefined
    /\ callLog.pre.metas[callLog.path] # callLog.post.metas[callLog.path]
    /\ callLog.post.metas[callLog.path].touched
    /\ callLog.post.metas[callLog.path].dirty
    /\ errors # NoErrors
    /\ Len(undoRedoManager.history) >= 2

\* ---------------------------------------- properties of initialization
\* initializeState() has not run to its end.
InitRunning ==
    \E q \in {ready, pending} : \E i \in DOMAIN q : q[i].op = "init"

\* The validation pass of initializeState() has started.
InitValidates ==
    \E q \in {ready, pending} : \E i \in DOMAIN q :
        q[i].op = "init" /\ q[i].pc \in {"validate", "reval", "init_finish"}

\* The validation passes of initializeState() that are in flight or done.
InitPasses ==
    UNION {{q[i].errs : i \in {j \in DOMAIN q : q[j].op = "init" /\ q[j].pc # "init_resolve"}}
              : q \in {ready, pending}}

\* No call was made while initialization was running.
NoEarlyCall == \A i \in DOMAIN calls : ~calls[i].early

\* A step that ends an initialization whose initializer resolved.
InitCompletes == InitValidates /\ ~InitRunning'

\* C22 as stated: state() is null from construction until the initializer
\* resolves; when initialization completes, state() and initialState() equal
\* the initializer's value, the history is exactly [that value] with
\* currentIndex 0, and one validation pass is run on it; initializing is true
\* during initialization and false afterwards, also when the initializer rejects.
C22_Initialization ==
    /\ [](InitializerPending => state = Null)
    /\ [](InitRunning <=> formStatus.initializing)
    /\ [](InitPasses \subseteq {flatten(props.yields)})
    /\ [][InitCompletes
             => /\ ValueOf(heap', state') = props.yields
                /\ ValueOf(heap', initialState') = props.yields
                /\ undoRedoManager'.currentIndex = 0
                /\ Len(undoRedoManager'.history) = 1
                /\ ValueOf(heap', getCurrentState(undoRedoManager')) = props.yields]_vars

\* C22 amended: the same, for state() and the history provided that no engine
\* call is made before initialization completes; the initializing flag and
\* the validation pass are as stated, whatever calls are made.
C22_InitializationUndisturbed ==
    /\ []((InitializerPending /\ NoEarlyCall) => state = Null)
    /\ [](InitRunning <=> formStatus.initializing)
    /\ [](InitPasses \subseteq {flatten(props.yields)})
    /\ [][(InitCompletes /\ NoEarlyCall)
             => /\ ValueOf(heap', state') = props.yields
                /\ ValueOf(heap', initialState') = props.yields
                /\ undoRedoManager'.currentIndex = 0
                /\ Len(undoRedoManager'.history) = 1
                /\ ValueOf(heap', getCurrentState(undoRedoManager')) = props.yields]_vars

\* An asynchronous initializer has resolved and the initialization has run to
\* its end with no call made meanwhile: the form holds the initial state, its
\* errors are those of the initial state.
C22_Witness ==
    /\ props.initialState = "async"
    /\ ~InitRunning
    /\ ~formStatus.initializing
    /\ calls = <<>>
    /\ faults = 0
    /\ ValueOf(heap, state) = props.yields
    /\ undoRedoManager = createUndoRedoManager(initialState)
    /\ errors = flatten(props.yields)
    /\ errors # NoErrors

\* --------------------------------------- SpecArray: the array field view
\* useArrayField(path) on a form whose state is {a, b, items: [...]}.
ArrayPath == <<"items">>

\* The arrays the field holds at first.
Arrays == UNION {[1 .. n -> FieldVals] : n \in 0 .. MaxArray}

\* A JavaScript array as a sequence of its elements, and back.
ItemsOf(obj) == [i \in 1 .. obj.length.v |-> obj[indexName(i - 1)]]

ArrayObject(s) ==
    [k \in {indexName(i - 1) : i \in 1 .. Len(s)} \cup {"length"} |->
        IF k = "length" THEN Num(Len(s))
        ELSE s[CHOOSE i \in 1 .. Len(s) : indexName(i - 1) = k]]

\* array[i], and array[i] = value (a write past the end fills with undefined).
at(s, i) == IF i < Len(s) THEN s[i + 1] ELSE Undefined

assign(s, i, value) ==
    IF i < Len(s) THEN [s EXCEPT ![i + 1] = value]
    ELSE s \o [k \in 1 .. (i - Len(s)) |-> Undefined] \o <<value>>

\* Array.prototype.splice(start, deleteCount, ...items): the array afterwards,
\* and the elements it returns.
splice(s, start, deleteCount, items) ==
    LET from == IF start < 0 THEN Max(Len(s) + start, 0) ELSE Min(start, Len(s))
    IN  SubSeq(s, 1, from) \o items \o SubSeq(s, from + deleteCount + 1, Len(s))

spliced(s, start, deleteCount) ==
    LET from == IF start < 0 THEN Max(Len(s) + start, 0) ELSE Min(start, Len(s))
    IN  SubSeq(s, from + 1, Min(from + deleteCount, Len(s)))

\* prev.filter((_, i) => i !== index), from element i on.
RECURSIVE filter(_, _, _)
filter(s, i, index) ==
    IF s = <<>> THEN <<>>
    ELSE (IF i # index THEN <<Head(s)>> ELSE <<>>) \o filter(Tail(s), i + 1, index)

\* The array each operation of the view hands to setValue.
push(prev, item) == prev \o <<item>>

remove(prev, index) == filter(prev, 0, index)

\* Faulty variant of move: the element is inserted before it is removed.
move_insertsFirst(prev, from, to) ==
    LET inserted == splice(prev, to, 0, <<at(prev, from)>>)
    IN  splice(inserted, from, 1, <<>>)

move(prev, from, to) ==
    LET removed  == spliced(prev, from, 1)
        newArray == splice(prev, from, 1, <<>>)
    IN  splice(newArray, to, 0, <<IF removed = <<>> THEN Undefined ELSE removed[1]>>)

insert(prev, index, item) == splice(prev, index, 0, <<item>>)

replace(prev, index, item) == assign(prev, index, item)

empty == <<>>

swap(prev, indexA, indexB) ==
    LET temp == at(prev, indexA)
    IN  assign(assign(prev, indexA, at(prev, indexB)), indexB, temp)

InitArray ==
    /\ undoLimit = MaxLimit
    /\ \E kind \in InitialiserKinds, s \in Arrays :
          LET root == [a |-> Num(1), b |-> Num(0), items |-> Ref(2)]
          IN  /\ heap = <<root, ArrayObject(s)>>
              /\ props = [initialState |-> kind,
                          literal      |-> IF kind = "literal" THEN Ref(1) ELSE Undefined,
                          yields       |-> root]
              /\ ready = Suspend(<<>>, NewFrame("init", "init_resolve", FALSE, Ref(1)),
                                 kind = "async")
              /\ pending = Park(<<>>, NewFrame("init", "init_resolve", FALSE, Ref(1)),
                                kind = "async")
    /\ state = Null
    /\ initialState = Null
    /\ undoRedoManager = NoManager
    /\ errors = NoErrors
    /\ formStatus = [AllFalse EXCEPT !.initializing = TRUE]
    /\ fieldStatuses = [p \in Paths \cup {ArrayPath} |-> DefaultFieldStatus]
    /\ fieldMetas = NoMetas
    /\ caller = "running"
    /\ mode = "awaits"
    /\ ncalls = 0
    /\ submitted = 0
    /\ faults = 0
    /\ script = [phase |-> "start", vals |-> <<>>, undos |-> 0]
    /\ callLog = NoEngineCall
    /\ calls = <<>>
    /\ hmLog = <<>>
    /\ hmOverflowed = FALSE

\* The elements of the array at the field's path.
ItemsAt(h, root) ==
    LET val == get(h, root, ArrayPath)
    IN  IF IsArray(h, val) THEN ItemsOf(h[val.v]) ELSE <<>>

\* An operation of the view, up to the first await of the setFieldValue it
\* calls through setValue: the update is applied to the array read now.
ArrayCall(op, args, result, isAsync) ==
    LET threw == get(heap, state, ArrayPath) = TypeError
        f == [NewFrame(op, "sfv_resolve", TRUE, Ref(FreshAddr(heap)))
                 EXCEPT !.path = ArrayPath, !.cur = state]
    IN  /\ MayCall
        /\ ncalls < MaxArrayOps
        /\ Len(result) <= MaxArray + 1
        /\ fieldStatuses' = [fieldStatuses EXCEPT ![ArrayPath].isSettingValue = ~threw]
        /\ heap' = IF threw THEN heap ELSE Alloc(heap, ArrayObject(result))
        /\ ready' = IF threw THEN Append(ready, CallerToken("rejected"))
                    ELSE Suspend(ready, f, isAsync)
        /\ pending' = IF threw THEN pending ELSE Park(pending, f, isAsync)
        /\ caller' = "awaiting"
        /\ ncalls' = ncalls + 1
        /\ callLog' = Called(op, 0, ArrayPath, [args EXCEPT !.items = ItemsAt(heap, state)])
        /\ UNCHANGED <<props, mode, state, initialState, undoRedoManager, undoLimit,
                       errors, formStatus, submitted, faults, script, hmLog,
                       hmOverflowed, calls, fieldMetas>>

\* What the caller passes: indexes, one past the end included, and items given
\* as values or through asynchronous initializers.
Indexes == 0 .. MaxArray + 1
Args(i, j, x) == [items |-> <<>>, i |-> i, j |-> j, x |-> x]

Call_push ==
    \E x \in FieldVals, isAsync \in BOOLEAN :
        ArrayCall("push", Args(0, 0, x), push(ItemsAt(heap, state), x), isAsync)

Call_remove ==
    \E i \in Indexes, isAsync \in BOOLEAN :
        /\ i <= Len(ItemsAt(heap, state))
        /\ ArrayCall("remove", Args(i, 0, Undefined), remove(ItemsAt(heap, state), i), isAsync)

Call_move ==
    \E i \in Indexes, j \in Indexes, isAsync \in BOOLEAN :
        /\ i <= Len(ItemsAt(heap, state))
        /\ j <= Len(ItemsAt(heap, state))
        /\ ArrayCall("move", Args(i, j, Undefined), move(ItemsAt(heap, state), i, j), isAsync)

Call_insert ==
    \E i \in Indexes, x \in FieldVals, isAsync \in BOOLEAN :
        /\ i <= Len(ItemsAt(heap, state))
        /\ ArrayCall("insert", Args(i, 0, x), insert(ItemsAt(heap, state), i, x), isAsync)

Call_replace ==
    \E i \in Indexes, x \in FieldVals, isAsync \in BOOLEAN :
        /\ i <= Len(ItemsAt(heap, state))
        /\ ArrayCall("replace", Args(i, 0, x), replace(ItemsAt(heap, state), i, x), isAsync)

Call_empty == ArrayCall("empty", Args(0, 0, Undefined), empty, FALSE)

Call_swap ==
    \E i \in Indexes, j \in Indexes, isAsync \in BOOLEAN :
        /\ i <= Len(ItemsAt(heap, state))
        /\ j <= Len(ItemsAt(heap, state))
        /\ ArrayCall("swap", Args(i, j, Undefined), swap(ItemsAt(heap, state), i, j), isAsync)

NextArray ==
    \/ Call_push
    \/ Call_remove
    \/ Call_move
    \/ Call_insert
    \/ Call_replace
    \/ Call_empty
    \/ Call_swap
    \/ PromiseSettles
    \/ ValidationSettles
    \/ RevalidateResumes
    \/ InitResolves
    \/ InitFinishes
    \/ SetStateResolves
    \/ SetStateFinishes
    \/ SetFieldValueResolves
    \/ CallReturns
    \/ CallerResumes
    \/ CallerSleeps
    \/ CallerWakes

SpecArray == InitArray /\ [][NextArray]_vars

\* ------------------------------------ SpecPath: get and set on their own
\* get and set are applied to a root that holds an object and an array:
\*   {a: {c: 0}, list: [0, 1]},  with a or list null or undefined, the array
\* one element long, or the root itself null.
Segments  == {"a", "c", "list", "0", "1", "01"}
TestPaths == {<<s>> : s \in Segments} \cup {<<s, r>> : s \in Segments, r \in Segments}

\* The values written: not among those the root holds at first.
PathVals == {Null, Num(MaxField + 1)}

ArrayOf(n) ==
    IF n = 1 THEN ("0" :> Num(0)) @@ ("length" :> Num(1))
    ELSE ("0" :> Num(0)) @@ ("1" :> Num(1)) @@ ("length" :> Num(2))

PathHeaps ==
    {<<[a |-> x, list |-> y], [c |-> Num(0)], ArrayOf(n)>> :
        x \in {Ref(2), Null}, y \in {Ref(3), Undefined}, n \in 1 .. 2}

\* The whole value a reference stands for.
RECURSIVE Deep(_, _)
Deep(h, val) ==
    IF val.t = "ref" THEN [k \in DOMAIN h[val.v] |-> Deep(h, h[val.v][k])] ELSE val

\* What get yields for every path.
Reads(h, root) == [q \in TestPaths |-> Deep(h, get(h, root, q))]

\* Every container on the way to the last segment of the path exists.
ContainersExist(h, root, path) ==
    \A n \in 0 .. Len(path) - 1 : get(h, root, SubSeq(path, 1, n)).t = "ref"

\* The last application: of get or set, to which path, with which value, what
\* it returned, and what every path read before.
Applied(op, path, arg, ret) ==
    [op |-> op, path |-> path, arg |-> arg, ret |-> ret,
     valid |-> ContainersExist(heap, state, path), before |-> Reads(heap, state)]

InitPath ==
    /\ heap \in PathHeaps
    /\ state \in {Ref(1), Null}
    /\ callLog = [op |-> "none", path |-> <<>>, arg |-> Undefined, ret |-> Undefined,
                  valid |-> FALSE, before |-> <<>>]
    /\ ncalls = 0
    /\ props = [initialState |-> "none", literal |-> Undefined, yields |-> Undefined]
    /\ initialState = NoValue
    /\ undoRedoManager = NoManager
    /\ undoLimit = 1
    /\ errors = {}
    /\ formStatus = {}
    /\ fieldStatuses = {}
    /\ fieldMetas = {}
    /\ ready = <<>>
    /\ pending = <<>>
    /\ caller = "none"
    /\ mode = "none"
    /\ submitted = 0
    /\ faults = 0
    /\ script = <<>>
    /\ calls = <<>>
    /\ hmLog = <<>>
    /\ hmOverflowed = FALSE

PathGet ==
    \E path \in TestPaths :
        /\ ncalls < MaxSteps
        /\ ncalls' = ncalls + 1
        /\ callLog' = Applied("get", path, Undefined, get(heap, state, path))
        /\ UNCHANGED <<props, heap, state, initialState, undoRedoManager, undoLimit, errors,
                       formStatus, fieldStatuses, fieldMetas, ready, pending, caller, mode,
                       submitted, faults, script, calls, hmLog, hmOverflowed>>

PathSet ==
    \E path \in TestPaths, value \in PathVals :
        /\ ncalls < MaxSteps
        /\ ncalls' = ncalls + 1
        /\ heap' = set(heap, state, path, value)
        /\ callLog' = Applied("set", path, value, state)
        /\ UNCHANGED <<props, state, initialState, undoRedoManager, undoLimit, errors,
                       formStatus, fieldStatuses, fieldMetas, ready, pending, caller, mode,
                       submitted, faults, script, calls, hmLog, hmOverflowed>>

NextPath == PathGet \/ PathSet

SpecPath == InitPath /\ [][NextPath]_vars

\* ---------------------------------------- properties of get and set
IsPrefix(q, p) == Len(q) <= Len(p) /\ SubSeq(p, 1, Len(q)) = q

\* C24: for every root, every non-empty path p whose intermediate containers
\* exist in root, and every value v, get(set(root, p, v), p) == v, and for
\* every path q that is neither a prefix of p nor has p as a prefix,
\* get(root, q) is the same before and after the set.
C24_PathRoundTrip ==
    (callLog.op = "set" /\ callLog.valid)
    => /\ get(heap, state, callLog.path) = callLog.arg
       /\ \A q \in TestPaths :
             (~IsPrefix(q, callLog.path) /\ ~IsPrefix(callLog.path, q))
             => Deep(heap, get(heap, state, q)) = callLog.before[q]

\* A null or absent value is met on the path while segments remain.
NullOnTheWay(h, root, path) ==
    \E n \in 0 .. Len(path) - 1 :
        get(h, root, SubSeq(path, 1, n)) \in {Null, Undefined, TypeError}

\* C25: get(root, path) never throws: when root, or an intermediate value on
\* the path, is null or absent while segments remain, it yields undefined (so
\* field reads before initialization completes, when state() is null, yield
\* undefined).
C25_GetNeverThrows ==
    callLog.op = "get"
    => /\ callLog.ret # TypeError
       /\ NullOnTheWay(heap, state, callLog.path) => callLog.ret = Undefined

\* --------------------------------- properties of the array field view
\* The array before the caller's last call, and its arguments.
Before == callLog.arg.items
InRange(i) == i < Len(Before)

\* a without index i, and a with x placed at index i.
Without(a, i) == SubSeq(a, 1, i) \o SubSeq(a, i + 2, Len(a))
PlacedAt(a, i, x) == SubSeq(a, 1, i) \o <<x>> \o SubSeq(a, i + 1, Len(a))

\* C26: for every array a of bounded length and in-range indices: push(x)
\* yields a followed by x; remove(i) yields a without index i; insert(i, x)
\* yields a with x placed at index i and later elements shifted right;
\* replace(i, x) yields a with only index i overwritten; move(from, to) yields
\* the array obtained by removing a[from] and inserting it at index to of the
\* shortened array; swap(i, j) exchanges a[i] and a[j]; empty() yields [];
\* after the awaited operation the value at the field's path in state()
\* equals that result.
C26_ArrayOperations ==
    LET a == Before
        i == callLog.arg.i
        j == callLog.arg.j
        x == callLog.arg.x
        now == ItemsAt(heap, state)
    IN  /\ LastCallDone("push") => now = a \o <<x>>
        /\ (LastCallDone("remove") /\ InRange(i)) => now = Without(a, i)
        /\ (LastCallDone("insert") /\ InRange(i)) => now = PlacedAt(a, i, x)
        /\ (LastCallDone("replace") /\ InRange(i))
           => (Len(now) = Len(a)
               /\ \A k \in 1 .. Len(a) : now[k] = IF k = i + 1 THEN x ELSE a[k])
        /\ (LastCallDone("move") /\ InRange(i) /\ InRange(j))
           => now = PlacedAt(Without(a, i), j, a[i + 1])
        /\ (LastCallDone("swap") /\ InRange(i) /\ InRange(j))
           => (Len(now) = Len(a)
               /\ \A k \in 1 .. Len(a) :
                     now[k] = IF k = i + 1 THEN a[j + 1]
                              ELSE IF k = j + 1 THEN a[i + 1] ELSE a[k])
        /\ LastCallDone("empty") => now = <<>>

\* A move of the first of two different elements to the last place has settled.
C26_Witness ==
    /\ LastCallDone("move")
    /\ Len(Before) = MaxArray
    /\ callLog.arg.i = 0
    /\ callLog.arg.j = MaxArray - 1
    /\ Before[1] # Before[MaxArray]
    /\ ItemsAt(heap, state) # Before
    /\ ItemsAt(heap, state)[MaxArray] = Before[1]

\* ---------------------------------------------------------------------------
\* setState: write, record, validate
\* ---------------------------------------------------------------------------

\* The validation passes that have been started and have not returned.
Validating(w) == {i \in DOMAIN w : w[i].pc = "validate"}

\* The step of a setState call whose update has resolved, on an engine that
\* has its manager: `setStateInternal(next)` and what follows it up to the
\* await inside revalidate().
SetStateWrites ==
    /\ SetStateResolves
    /\ Head(ready).op = "setState"
    /\ Head(ready).outcome = "ok"
    /\ undoRedoManager # NoManager

\* One entry, the new state, is put directly after the current position; the
\* entries up to that position are kept, but for the oldest ones the limit
\* drops.
RecordsOnce(m, n, entry) ==
    LET kept == SubSeq(m.history, 1, m.currentIndex + 1)
        shown == SubSeq(n.history, 1, Len(n.history) - 1)
    IN  /\ n.history # <<>>
        /\ n.history[Len(n.history)] = entry
        /\ n.currentIndex = Len(n.history) - 1
        /\ Len(n.history) = Min(Len(kept) + 1, undoLimit)
        /\ shown = SubSeq(kept, Len(kept) - Len(shown) + 1, Len(kept))

\* C27: each setState call on an initialized engine whose update resolves
\* writes the new state, appends exactly one history entry equal to it and
\* starts exactly one validation pass, all in the one step of that call, so
\* that no step of another operation runs between the write and the record;
\* and on an initialized engine the state and the history change in no other
\* step, and a validation pass is started in no other step.
C27_WriteRecordValidate ==
    [][/\ SetStateWrites
          => /\ state' = Head(ready).next
             /\ RecordsOnce(undoRedoManager, undoRedoManager', state')
             /\ Cardinality(Validating(pending')) = Cardinality(Validating(pending)) + 1
             /\ pending'[Len(pending')].id = Head(ready).id
             /\ pending'[Len(pending')].pc = "validate"
             /\ formStatus'.validating
             /\ Head(ready) \notin {ready'[k] : k \in DOMAIN ready'}
       /\ (undoRedoManager # NoManager /\ ~SetStateWrites)
          => /\ state' = state
             /\ undoRedoManager' = undoRedoManager
             /\ Cardinality(Validating(pending')) <= Cardinality(Validating(pending))
      ]_vars

\* Two setState calls made on the initialized engine overlap; the one made
\* second has written and recorded its value and its validation pass runs,
\* while the first is still waiting for its update.
C27_Witness ==
    /\ Len(calls) = 2
    /\ ~calls[1].early
    /\ calls[1].at = 0
    /\ calls[1].status = "pending"
    /\ calls[2].at = 1
    /\ calls[2].during = {1}
    /\ ValueOf(heap, state) = calls[2].written
    /\ undoRedoManager.currentIndex = 1
    /\ undoRedoManager.history[2] = state
    /\ \E i \in Validating(pending) : pending[i].id = 2

\* ---------------------------------------------------------------------------
\* undo and redo go back through setState
\* ---------------------------------------------------------------------------

\* The last call was the engine's undo or redo, made when the engine had its
\* manager, and it has returned.
UndoRedoReturned ==
    /\ callLog.op \in {"undo", "redo"}
    /\ callLog.post.outcome # "none"
    /\ callLog.pre.history # <<>>

\* The position manager.undo(steps) or manager.redo(steps) moved to.
Retrieved ==
    IF callLog.op = "undo" THEN Max(0, callLog.pre.currentIndex - callLog.steps)
    ELSE Min(Len(callLog.pre.history) - 1, callLog.pre.currentIndex + callLog.steps)

\* The history with the snapshot at position r recorded once more directly
\* after r, kept within the limit as every record is.
Rerecorded(history, r) ==
    sliceFrom(SubSeq(history, 1, r + 1) \o <<history[r + 1]>>, 0 - undoLimit)

\* The step of an undo or redo call in which its setState applies the
\* retrieved snapshot.
UndoRedoWrites ==
    /\ SetStateResolves
    /\ Head(ready).op \in {"undo", "redo"}

Overlapped(i, j) ==
    /\ i \in calls[j].during
    /\ calls[i].arg.kind = "async"
    /\ calls[j].arg.kind = "async"
    /\ calls[i].at # 0
    /\ calls[j].at # 0

\* What the updater of a call returns when it is handed the state read when
\* the call started.
FromOwnRead(call) ==
    [a |-> Num(((IF call.before \in Objs THEN call.before.a.v ELSE 0) + call.arg.step)
               % (MaxField + 1)),
     b |-> IF call.before \in Objs THEN call.before.b ELSE Num(0)]

\* The last two history entries are the values of the two calls, the one
\* applied first before the one applied last, and state() is the latter.
LastSettledWins(first, last) ==
    LET shots == Snapshots(heap, undoRedoManager)
    IN  /\ ValueOf(heap, state) = calls[last].written
        /\ Len(shots) >= 2
        /\ shots[Len(shots) - 1] = calls[first].written
        /\ shots[Len(shots)] = calls[last].written
        /\ undoRedoManager.currentIndex = Len(shots) - 1

\* C29 as stated: when two setState calls with asynchronous updates overlap,
\* each updater receives the state read when its own call started, the final
\* state() is the value of the update that settles last regardless of call
\* order, and both values are in the history in settle order.
C29_OverlapNotSerialized ==
    \A i \in DOMAIN calls, j \in DOMAIN calls :
        Overlapped(i, j)
        => /\ calls[i].written = FromOwnRead(calls[i])
           /\ calls[j].written = FromOwnRead(calls[j])
           /\ Settled
              => LastSettledWins(IF calls[i].at < calls[j].at THEN i ELSE j,
                                 IF calls[i].at < calls[j].at THEN j ELSE i)

\* C29, amended: the same, for calls made after initialization has completed
\* and created the manager, on an engine whose undo limit is at least 2; each
\* updater receives the state read when its own call started in every case.
C29_OverlapNotSerializedInitialized ==
    \A i \in DOMAIN calls, j \in DOMAIN calls :
        Overlapped(i, j)
        => /\ calls[i].written = FromOwnRead(calls[i])
           /\ calls[j].written = FromOwnRead(calls[j])
           /\ (Settled /\ ~calls[i].early /\ ~calls[j].early
               /\ undoRedoManager # NoManager /\ undoLimit >= 2)
              => LastSettledWins(IF calls[i].at < calls[j].at THEN i ELSE j,
                                 IF calls[i].at < calls[j].at THEN j ELSE i)

\* Two overlapping asynchronous updates made on the initialized engine have
\* settled against the order of the calls: the second call's update was
\* applied first, the first call's value is the final state, and the two
\* values differ.
C29_Witness ==
    /\ Settled
    /\ Len(calls) = 2
    /\ Overlapped(1, 2)
    /\ ~calls[1].early
    /\ undoRedoManager # NoManager
    /\ undoLimit >= 2
    /\ calls[2].at < calls[1].at
    /\ calls[1].written # calls[2].written
    /\ calls[1].before = calls[2].before
    /\ ValueOf(heap, state) = calls[1].written

\* ---------------------------------------------------------------------------
\* state() and the current history entry
\* ---------------------------------------------------------------------------

\* Initialization has completed, the manager it creates is there, and no
\* engine operation is in flight.
InitializedAndIdle ==
    /\ ~formStatus.initializing
    /\ undoRedoManager # NoManager
    /\ Settled

\* C30: whenever initialization has completed and no engine operation is in
\* flight, state() is value-equal to the history entry at currentIndex, after
\* any interleaving of setState, setFieldValue, undo, redo and reset calls.
C30_StateIsCurrentEntry ==
    InitializedAndIdle
    => /\ undoRedoManager.currentIndex \in 0 .. Len(undoRedoManager.history) - 1
       /\ isEqual(heap, state, getCurrentState(undoRedoManager))

\* A setFieldValue followed by an undo has returned; the history holds
\* different snapshots and the current one, not the first, is state().
C30_Witness ==
    /\ InitializedAndIdle
    /\ caller = "running"
    /\ LastCallDone("undo")
    /\ callLog.prev.op = "setFieldValue"
    /\ undoRedoManager.currentIndex >= 1
    /\ \E k \in DOMAIN undoRedoManager.history :
          ~isEqual(heap, undoRedoManager.history[k], state)
    /\ isEqual(heap, state, getCurrentState(undoRedoManager))

\* ---------------------------------------------------------------------------
\* The validating flag under overlapping passes
\* ---------------------------------------------------------------------------

\* C31: formStatus().validating is true at every moment while at least one
\* validation pass is in flight (its safeParseAsync has not settled), also
\* when passes started by different calls overlap and one of them finishes
\* before the other.
C31_ValidatingWhilePassInFlight ==
    Validating(pending) # {} => formStatus.validating

\* ---------------------------------------------------------------------------
\* SpecMetaOverlap: setFieldMeta calls whose promises are not awaited
\* ---------------------------------------------------------------------------

InitMetaOverlap == InitWith("metas")

\* setFieldMeta(path, update) up to its first await, the promise kept for later.
Start_setFieldMeta ==
    \E path \in Paths, update \in MetaUpdates :
        LET f == [NewFrame("setFieldMeta", "sfm_resolve", FALSE, Undefined)
                     EXCEPT !.path = path, !.id = Len(calls) + 1,
                            !.meta = [currentMeta |-> currentMeta(fieldMetas, path),
                                      update |-> update]]
        IN  /\ caller = "running"
            /\ mode = "metas"
            /\ ncalls < MaxOverlap
            /\ fieldStatuses' = [fieldStatuses EXCEPT ![path].isSettingMeta = TRUE]
            /\ ready' = Suspend(ready, f, update.kind = "async")
            /\ pending' = Park(pending, f, update.kind = "async")
            /\ ncalls' = ncalls + 1
            /\ calls' = Append(calls, Started(path, update))
            /\ UNCHANGED <<props, mode, heap, state, initialState, undoRedoManager, undoLimit,
                           errors, formStatus, caller, submitted, faults, script, callLog,
                           hmLog, hmOverflowed, fieldMetas>>

NextMetaOverlap ==
    \/ Start_setFieldMeta
    \/ PromiseSettles
    \/ ValidationSettles
    \/ RevalidateResumes
    \/ InitResolves
    \/ InitFinishes
    \/ SetFieldMetaResolves
    \/ SetFieldMetasResolves
    \/ CallerSleeps
    \/ CallerWakes

SpecMetaOverlap == InitMetaOverlap /\ [][NextMetaOverlap]_vars

\* C32: setFieldMeta(p, u) never changes the meta record of another path
\* q # p, also when it overlaps with a setFieldMeta call on q: after both
\* calls have settled, fieldMetas() holds the results of both.
C32_MetaUpdatesKept ==
    \A i \in DOMAIN calls, j \in DOMAIN calls :
        (/\ Settled
         /\ calls[i].path # calls[j].path
         /\ calls[i].status = "ok"
         /\ calls[j].status = "ok")
        => /\ fieldMetas[calls[i].path] = calls[i].written
           /\ fieldMetas[calls[j].path] = calls[j].written

\* ---------------------------------------------------------------------------
\* What has happened when setFieldValue's promise resolves
\* ---------------------------------------------------------------------------

\* The step in which the caller goes on after `await setFieldValue(p, u)`, a
\* call on the initialized engine that resolved: the moment its promise
\* resolves.
SetFieldValueReturns ==
    /\ CallerResumes
    /\ callLog.op = "setFieldValue"
    /\ callLog.pre.state \in Objs
    /\ undoRedoManager # NoManager
    /\ Head(ready).outcome = "ok"

\* C33: when the promise returned by setFieldValue(p, u) resolves, the state
\* change it delegated to setState has been recorded in the history and the
\* validation pass for it has completed, so that nothing of the call is in
\* flight any more and errors() holds the errors of the new state.
C33_SetFieldValueAwaitsSetState ==
    [][SetFieldValueReturns
       => /\ isEqual(heap', state', getCurrentState(undoRedoManager'))
          /\ Settled'
          /\ safeParse(heap', state') # NoErrors => errors' = safeParse(heap', state')]_vars

\* ---------------------------------------------------------------------------
\* A setState that settles before the initializer
\* ---------------------------------------------------------------------------

\* Every call made so far was a setState(v) with a literal v that settled
\* while the initializer was still pending, and there is such a call.
SettledBeforeInit ==
    /\ calls # <<>>
    /\ \A i \in DOMAIN calls :
          /\ calls[i].arg.kind = "value"
          /\ calls[i].status # "pending"
          /\ calls[i].beforeInit

\* C34: a setState(v) call with a literal v that settles while the
\* asynchronous initializer is still pending is not recorded in the history,
\* there being none as long as the initializer is pending, and is discarded:
\* when initialization completes, state() is the initializer's value and the
\* history is exactly [initial state].
C34_EarlySetStateDiscarded ==
    /\ [](InitializerPending => undoRedoManager = NoManager)
    /\ [][(InitCompletes /\ SettledBeforeInit)
          => /\ ValueOf(heap', state') = props.yields
             /\ initialState' = state'
             /\ undoRedoManager'.history = <<initialState'>>
             /\ undoRedoManager'.currentIndex = 0]_vars

\* Initialization has completed after a setState({..}) with a value other
\* than the initializer's was applied and settled while the initializer was
\* pending: state() is the initializer's value, the history holds it alone.
C34_Witness ==
    /\ ~InitRunning
    /\ ~formStatus.initializing
    /\ props.initialState = "async"
    /\ Len(calls) = 1
    /\ SettledBeforeInit
    /\ calls[1].status = "ok"
    /\ calls[1].written = calls[1].arg.obj
    /\ calls[1].seen = calls[1].arg.obj
    /\ calls[1].arg.obj # props.yields
    /\ ValueOf(heap, state) = props.yields
    /\ Snapshots(heap, undoRedoManager) = <<props.yields>>
    /\ undoRedoManager.currentIndex = 0

====
